---- MODULE Spec2Model ----
(***************************************************************************)
(* State-machine model of the JenkinsTui application controller            *)
(* (internal/tui/app.go), its service facade (internal/tui/service.go)     *)
(* and its view components (internal/tui/components).                      *)
(*                                                                         *)
(* Commands returned by Model.Update run off the event loop: a command in  *)
(* `cmds` is running, RunCmd executes its body (the service call) and      *)
(* appends the result message to `msgs`, and Process hands the head of     *)
(* `msgs` to Model.Update.  Key presses and resizes are handed to          *)
(* Model.Update directly.                                                  *)
(***************************************************************************)
EXTENDS Integers, Sequences, FiniteSets, Bags, TLC

(***************************************************************************)
(* Bounds of the model                                                     *)
(***************************************************************************)
MaxTicks == 1         \* the clock stops after this many tick periods
MaxOverlap == 1       \* commands outstanding while an eager user still acts
MaxFilterLen == 1     \* characters typed into a list's filter input
MaxSearchLen == 2     \* the same, for a user who searches for a job by name
MaxWords == 2         \* words in a line of console text
MaxNodes == 3         \* nodes of the Jenkins server
MaxRefreshTicks == 2  \* tick periods a user watches the periodic refresh for

(***************************************************************************)
(* Program constants                                                       *)
(***************************************************************************)
TickPeriod == 30              \* RefreshTick(30*time.Second)
DefaultRefreshInterval == 30  \* ShouldRefresh: refreshInterval <= 0 -> 30
ConfigRefreshInterval == 30   \* DefaultConfig: UI.RefreshInterval

DashboardView == "Dashboard"
JobListView == "JobList"
JobDetailView == "JobDetail"
BuildLogView == "BuildLog"
HelpView == "Help"
ViewType == {DashboardView, JobListView, JobDetailView, BuildLogView, HelpView}

\* list.FilterState of the bubbles list embedded in JobList and JobDetail
Unfiltered == "Unfiltered"
Filtering == "Filtering"
FilterApplied == "FilterApplied"

(***************************************************************************)
(* The environment: what the Jenkins server and the user may produce       *)
(***************************************************************************)
NoJob == ""
ErrNotConnected == "not connected to Jenkins server"
ErrRequest == "request failed"
ErrNodes == "failed to get nodes"
NoError == ""

\* job names as the characters the filter sees
NameChars == [ab |-> <<"a", "b">>, axb |-> <<"a", "x", "b">>]
JobNames == DOMAIN NameChars

Job(n, s) == [Name |-> n, Status |-> s]
JobLists == { <<Job("axb", "success")>>,
              <<Job("ab", "failure"), Job("axb", "success")>> }

\* the color tokens the server may report for a job: the ones the client
\* knows, and three it does not
Colors == {"blue", "blue_anime", "red", "red_anime", "yellow", "yellow_anime",
           "grey", "grey_anime", "disabled", "disabled_anime",
           "aborted", "aborted_anime", "notbuilt", "notbuilt_anime", ""}
\* the jobs of the server's JSON answer: one job, or two
ColoredJob(n, c) == [Name |-> n, Color |-> c]
ColoredJobLists ==
    { <<ColoredJob("axb", c)>> : c \in Colors }
        \cup { <<ColoredJob("ab", c1), ColoredJob("axb", c2)>> : c1 \in Colors, c2 \in Colors }

Node(online, idle) == [Online |-> online, Idle |-> idle]
\* what client.GetServerInfo may return on success (Nodes is filled in by
\* JenkinsService.Connect) and what client.GetNodes may return
ServerInfos ==
    { [URL |-> "http://localhost:8080", Version |-> "2.401", Mode |-> "NORMAL",
       Uptime |-> "0s", Nodes |-> <<>>] }
NodeLists == { <<Node(TRUE, TRUE), Node(TRUE, FALSE), Node(FALSE, TRUE)>> }
NoServerInfo == [URL |-> "", Version |-> "", Mode |-> "", Uptime |-> "", Nodes |-> <<>>]
\* every node list of up to MaxNodes nodes, each online or not and idle or not
RECURSIVE NodeListsOfLen(_)
NodeListsOfLen(n) ==
    IF n = 0 THEN { <<>> }
    ELSE { <<Node(online, idle)>> \o l :
              online \in BOOLEAN, idle \in BOOLEAN, l \in NodeListsOfLen(n - 1) }
AnyNodeLists == UNION { NodeListsOfLen(n) : n \in 0..MaxNodes }

\* what client.GetJobDetails may return for a job name; LastBuild is <<>>
\* for a nil pointer and <<number>> otherwise
JobDetailsOf(name) ==
    IF name = "ab"
    THEN { [Name |-> "ab", Description |-> "first job", URL |-> "/job/ab",
            Builds |-> <<2, 1>>, LastBuild |-> <<2>>] }
    ELSE { [Name |-> name, Description |-> "", URL |-> "/job/axb",
            Builds |-> <<>>, LastBuild |-> <<>>],
           [Name |-> name, Description |-> "", URL |-> "/job/axb",
            Builds |-> <<3>>, LastBuild |-> <<3>>] }

\* what client.GetBuildDetails may return for a build
BuildResults == {"FAILURE"}
BuildDetailsOf(name, number) ==
    { [Number |-> number, Result |-> r, Building |-> FALSE] : r \in BuildResults }
\* every result Jenkins reports, no result yet, and one it does not; a build
\* may be running or not
AnyBuildResults == {"SUCCESS", "FAILURE", "ABORTED", "UNSTABLE", "NOT_BUILT", "", "REGRESSION"}
AnyBuildDetailsOf(name, number) ==
    { [Number |-> number, Result |-> r, Building |-> b] :
          r \in AnyBuildResults, b \in BOOLEAN }

\* the console text of a build names the build it belongs to
\* and is one line; a text is a sequence of lines and a line a sequence of words
LogOf(job, build) == << <<"log", job, ToString(build)>> >>
NoLog == <<>>

\* words of console lines, in the letter cases a build may print them, and
\* the console texts a caller may hand to the BuildLog view: any one line of
\* up to MaxWords words, or two lines of one word each
Words == {"ERROR", "failed", "Warning", "+", "SUCCESS", "Passed", "ok"}
RECURSIVE LinesOfLen(_)
LinesOfLen(n) ==
    IF n = 0 THEN { <<>> }
    ELSE { <<w>> \o l : w \in Words, l \in LinesOfLen(n - 1) }
Lines == UNION { LinesOfLen(n) : n \in 1..MaxWords }
LogTexts == { <<l>> : l \in Lines }
              \cup { <<l1, l2>> : l1 \in LinesOfLen(1), l2 \in LinesOfLen(1) }

\* a ui.refreshInterval a user may put in the configuration file
ShortRefreshInterval == 10

\* keys the user may press; FilterChars are the printable ones that no
\* binding of the application or of the list claims
FilterChars == {"x", "z"}
Keys == {"q", "?", "d", "j", "r", "a", "b", "enter", "esc", "up", "down", "/"} \cup FilterChars
Sizes == { <<80, 24>>, <<100, 30>> }

(***************************************************************************)
(* The bubbles list embedded in JobListComponent and JobDetailComponent:   *)
(* items, the index of the cursor, the filter state, the text of the       *)
(* filter input and the items the last filter run matched.                 *)
(***************************************************************************)
NewList == [items |-> <<>>, cursor |-> 0, filterState |-> Unfiltered,
            filterValue |-> <<>>, filteredItems |-> <<>>]

Min(a, b) == IF a < b THEN a ELSE b
Max(a, b) == IF a > b THEN a ELSE b

\* list.Model.VisibleItems
VisibleItems(l) == IF l.filterState # Unfiltered THEN l.filteredItems ELSE l.items

\* list.Model.SelectedItem: none (<<>>) or the one item under the cursor (<<item>>)
SelectedItem(l) ==
    IF Len(VisibleItems(l)) = 0 \/ Len(VisibleItems(l)) <= l.cursor
    THEN <<>>
    ELSE <<VisibleItems(l)[l.cursor + 1]>>

\* the dynamic type of a list item: a JobListItem or a BuildInfo
IsJobListItem(item) == "Name" \in DOMAIN item

\* the text a list item is filtered on: JobListItem.FilterValue is the job
\* name, BuildInfo.FilterValue is "#<number>"
FilterValue(item) ==
    IF IsJobListItem(item) THEN NameChars[item.Name]
    ELSE <<"#", ToString(item.Number)>>

\* pattern occurs in text as a subsequence, starting at text[i] (the
\* list's default fuzzy filter)
RECURSIVE FuzzyFrom(_, _, _, _)
FuzzyFrom(pattern, p, text, i) ==
    IF p > Len(pattern) THEN TRUE
    ELSE IF i > Len(text) THEN FALSE
    ELSE IF pattern[p] = text[i] THEN FuzzyFrom(pattern, p + 1, text, i + 1)
    ELSE FuzzyFrom(pattern, p, text, i + 1)

FuzzyMatch(pattern, text) == FuzzyFrom(pattern, 1, text, 1)

RECURSIVE SelectSeqBy(_, _)
SelectSeqBy(items, pattern) ==
    IF items = <<>> THEN <<>>
    ELSE IF FuzzyMatch(pattern, FilterValue(Head(items)))
         THEN <<Head(items)>> \o SelectSeqBy(Tail(items), pattern)
         ELSE SelectSeqBy(Tail(items), pattern)

\* the result of the list's filterItems command, computed on the copy of
\* the list captured when the command was made
FilterMatches(l) ==
    IF l.filterValue = <<>> \/ l.filterState = Unfiltered
    THEN l.items
    ELSE SelectSeqBy(l.items, l.filterValue)

\* list.Model.resetFiltering
ResetFiltering(l) ==
    IF l.filterState = Unfiltered THEN l
    ELSE [l EXCEPT !.filterState = Unfiltered, !.filterValue = <<>>,
                   !.filteredItems = <<>>]

\* list.Model.PrevPage: the lists are not sized where keys are pressed on
\* them, so a page holds one item and the page before is the item before
PrevPage(l) == [l EXCEPT !.cursor = Max(0, l.cursor - 1)]

\* list.Model.CursorUp / CursorDown
CursorUp(l) == [l EXCEPT !.cursor = Max(0, l.cursor - 1)]
CursorDown(l) ==
    [l EXCEPT !.cursor = Max(0, Min(l.cursor + 1, Len(VisibleItems(l)) - 1))]

\* keys the filter input takes as text, and the list's AcceptWhileFiltering keys
Printable == Keys \ {"enter", "esc", "up", "down"}
AcceptKeys == {"enter", "up", "down"}

\* list.Model.handleFiltering for a key press
HandleFiltering(l, k) ==
    IF k = "esc" THEN ResetFiltering(l)
    ELSE IF k \in AcceptKeys /\ l.filterValue # <<>>
    THEN IF Len(l.items) = 0 THEN l
         ELSE IF Len(VisibleItems(l)) = 0 THEN ResetFiltering(l)
         ELSE [l EXCEPT !.filterState = FilterApplied]
    ELSE IF k \in Printable
    THEN [l EXCEPT !.filterValue = Append(l.filterValue, k)]
    ELSE l

\* list.Model.handleBrowsing for a key press
HandleBrowsing(l, k) ==
    IF k = "esc" /\ l.filterState = FilterApplied THEN ResetFiltering(l)
    ELSE IF k \in {"up", "k"} THEN CursorUp(l)
    ELSE IF k \in {"down", "j"} THEN CursorDown(l)
    ELSE IF k = "b" THEN PrevPage(l)
    ELSE IF k = "/" /\ Len(l.items) # 0
    THEN [l EXCEPT !.filteredItems =
                       IF l.filterValue = <<>> THEN l.items ELSE l.filteredItems,
                   !.cursor = 0,
                   !.filterState = Filtering]
    ELSE l

\* list.Model.Update for a key press: the list after the key
ListKey(l, k) ==
    IF l.filterState = Filtering THEN HandleFiltering(l, k) ELSE HandleBrowsing(l, k)

\* list.Model.SetItems: a filtered list loses its matches (the refilter
\* command SetItems returns is dropped by WithJobs and WithBuilds)
SetItems(l, items, cursor) ==
    [l EXCEPT !.items = items,
              !.cursor = cursor,
              !.filteredItems = IF l.filterState # Unfiltered THEN <<>> ELSE l.filteredItems]

\* where SetItems may leave the cursor: updatePagination restores the
\* index and clamps the page, which keeps or clamps the index depending on
\* the page size
SetItemsCursors(l, items) == {l.cursor, Max(0, Min(l.cursor, Len(items) - 1))}

(***************************************************************************)
(* Commands and messages                                                   *)
(***************************************************************************)
Cmd(type, job, build, due, items) ==
    [type |-> type, job |-> job, build |-> build, due |-> due, items |-> items]
ConnectCmd == Cmd("Connect", NoJob, 0, 0, <<>>)
FetchJobsCmd == Cmd("FetchJobs", NoJob, 0, 0, <<>>)
FetchJobDetailCmd(jobName) == Cmd("FetchJobDetail", jobName, 0, 0, <<>>)
FetchBuildDetailCmd(jobName, buildNumber) == Cmd("FetchBuildDetail", jobName, buildNumber, 0, <<>>)
FetchBuildLogCmd(jobName, buildNumber) == Cmd("FetchBuildLog", jobName, buildNumber, 0, <<>>)
RefreshTickCmd(due) == Cmd("RefreshTick", NoJob, 0, due, <<>>)
QuitCmd == Cmd("Quit", NoJob, 0, 0, <<>>)
FilterItemsCmd(items) == Cmd("filterItems", NoJob, 0, 0, items)

KeyMsg(k) == [type |-> "KeyMsg", key |-> k]
WindowSizeMsg(w, h) == [type |-> "WindowSizeMsg", Width |-> w, Height |-> h]
connectMsg(err, info) == [type |-> "connectMsg", err |-> err, serverInfo |-> info]
fetchJobsMsg(jobs, err) == [type |-> "fetchJobsMsg", err |-> err, jobs |-> jobs]
fetchJobDetailMsg(detail, err) == [type |-> "fetchJobDetailMsg", err |-> err, jobDetail |-> detail]
fetchBuildDetailMsg(detail, err) == [type |-> "fetchBuildDetailMsg", err |-> err, buildDetail |-> detail]
fetchBuildLogMsg(log, err) == [type |-> "fetchBuildLogMsg", err |-> err, buildLog |-> log]
RefreshTickMsg(t) == [type |-> "RefreshTickMsg", time |-> t]
FilterMatchesMsg(items) == [type |-> "FilterMatchesMsg", items |-> items]
QuitMsg == [type |-> "QuitMsg"]
NoMsg == [type |-> "none"]

(***************************************************************************)
(* State                                                                   *)
(***************************************************************************)
VARIABLES
    currentView,    \* Model.currentView
    connected,      \* Model.connected
    serverURL,      \* Model.serverURL
    statusMessage,  \* Model.statusMessage, with a job's name or a build's number in it
    errorMsg,       \* Model.errorMsg: "" or the text before the error
    selectedJob,    \* Model.selectedJob
    selectedBuild,  \* Model.selectedBuild
    width, height,  \* Model.width, Model.height
    dashboard,      \* Model.dashboard
    jobList,        \* Model.jobList
    jobDetail,      \* Model.jobDetail
    buildLog,       \* Model.buildLog
    helpView,       \* Model.helpView
    service,        \* the JenkinsService the model points to
    config,         \* service.config.Config, read-only after Load
    overlap,        \* the user acts while at most this many commands are
                    \* outstanding (0: only once the screen has settled)
    typing,         \* the user types at most this many characters into a
                    \* filter input
    now,            \* the wall clock, in seconds
    cmds,           \* bag of commands running off the event loop
    msgs,           \* results waiting for the event loop, in arrival order
    quit,           \* the event loop read tea.QuitMsg: the program has ended
    panicked,       \* a failed type assertion ended the program
    last            \* the message Update handled last, the view it was
                    \* handled in and the commands Update returned

model == <<currentView, connected, serverURL, statusMessage, errorMsg, selectedJob,
           selectedBuild, width, height, dashboard, jobList, jobDetail, buildLog, helpView>>
env == <<config, overlap, typing>>
vars == <<model, service, env, now, cmds, msgs, quit, panicked, last>>

\* the event loop is running
Running == ~quit /\ ~panicked

(***************************************************************************)
(* BuildLogComponent.formatLog and colorizeLogOutput                       *)
(***************************************************************************)
\* the patterns strings.Contains finds in strings.ToLower of a word
Patterns(word) ==
    CASE word = "ERROR" -> {"error"}
      [] word = "failed" -> {"failed"}
      [] word = "Warning" -> {"warning"}
      [] word = "SUCCESS" -> {"success"}
      [] word = "Passed" -> {"passed"}
      [] OTHER -> {}

\* strings.Contains(strings.ToLower(line), pattern)
Contains(line, pattern) == \E i \in DOMAIN line : pattern \in Patterns(line[i])

\* strings.HasPrefix(line, prefix)
HasPrefix(line, prefix) == line # <<>> /\ line[1] = prefix

\* a colorizer that looks for success before anything else;
\* C24_LineClass fails with it
LineStyleSuccessFirst(line) ==
    IF Contains(line, "success") \/ Contains(line, "passed") \/ Contains(line, "completed")
    THEN "success"
    ELSE IF Contains(line, "error") \/ Contains(line, "exception") \/ Contains(line, "failed")
    THEN "error"
    ELSE IF Contains(line, "warning") THEN "warning"
    ELSE IF HasPrefix(line, "+") \/ HasPrefix(line, ">") THEN "command"
    ELSE "plain"

\* the branch of colorizeLogOutput a line takes
LineStyle(line) ==
    IF Contains(line, "error") \/ Contains(line, "exception") \/ Contains(line, "failed")
    THEN "error"
    ELSE IF Contains(line, "warning") THEN "warning"
    ELSE IF HasPrefix(line, "+") \/ HasPrefix(line, ">") THEN "command"
    ELSE IF Contains(line, "success") \/ Contains(line, "passed") \/ Contains(line, "completed")
    THEN "success"
    ELSE "plain"

colorizeLogOutput(log) == [i \in DOMAIN log |-> [style |-> LineStyle(log[i]), line |-> log[i]]]

formatLog(log) ==
    IF log = NoLog
    THEN <<[style |-> "plain", line |-> <<"No log data available for this build.">>]>>
    ELSE colorizeLogOutput(log)

(***************************************************************************)
(* Construction: tui.New, NewJenkinsService and the components' New*       *)
(***************************************************************************)
\* components.NewDashboard
NewDashboard ==
    [width |-> 0, height |-> 0,
     serverInfo |-> [URL |-> "", Version |-> "", Connected |-> FALSE, Mode |-> "",
                     Uptime |-> "", TotalNodes |-> 0, FreeNodes |-> 0]]
\* components.NewJobList
NewJobList == [list |-> NewList, width |-> 0, height |-> 0]
\* components.NewJobDetail
NewJobDetail ==
    [jobName |-> "", jobURL |-> "", description |-> "", buildList |-> NewList,
     lastBuild |-> <<>>, width |-> 0, height |-> 0]
\* components.NewBuildLog; content is what the viewport was given, line by
\* line with the style of each line
NewBuildLog ==
    [jobName |-> "", buildNum |-> 0, log |-> NoLog, ready |-> FALSE,
     width |-> 0, height |-> 0, vpWidth |-> 0, vpHeight |-> 0, content |-> <<>>]
\* components.NewHelp
NewHelp == [width |-> 0, height |-> 0]
\* api.NewClient: the mutex is free, no call is inside a method
\* (inside: the calls between Lock and Unlock; nodesDue: the Connect
\* goroutines between their GetServerInfo and their GetNodes)
NewClient == [inside |-> EmptyBag, nodesDue |-> 0]
\* NewJenkinsService: not connected, no error, lastRefresh the zero time
NewJenkinsService ==
    [connected |-> FALSE, lastError |-> NoError, serverInfo |-> NoServerInfo,
     lastRefresh |-> [set |-> FALSE, at |-> 0], client |-> NewClient]

\* tui.New followed by Model.Init: the components, Connect and the first tick
Start ==
    /\ currentView = DashboardView
    /\ connected = FALSE
    /\ serverURL = ""
    /\ statusMessage = <<"Welcome to Jenkins TUI">>
    /\ errorMsg = ""
    /\ selectedJob = NoJob
    /\ selectedBuild = 0
    /\ width = 0
    /\ height = 0
    /\ dashboard = NewDashboard
    /\ jobList = NewJobList
    /\ jobDetail = NewJobDetail
    /\ buildLog = NewBuildLog
    /\ helpView = NewHelp
    /\ service = NewJenkinsService
    /\ now = 0
    /\ cmds = SetToBag({ConnectCmd, RefreshTickCmd(TickPeriod)})
    /\ msgs = <<>>
    /\ quit = FALSE
    /\ panicked = FALSE
    /\ last = [msg |-> NoMsg, view |-> DashboardView, cmds |-> <<>>]

\* a user who waits for the screen to settle, and a refresh interval
\* configured shorter than the tick period
Init ==
    /\ Start
    /\ config = [RefreshInterval |-> ShortRefreshInterval]
    /\ overlap = 0
    /\ typing = MaxFilterLen

(***************************************************************************)
(* Bookkeeping of commands                                                 *)
(***************************************************************************)
RECURSIVE SeqToBag(_)
SeqToBag(seq) ==
    IF seq = <<>> THEN EmptyBag ELSE SetToBag({Head(seq)}) (+) SeqToBag(Tail(seq))

Unbounded == {"RefreshTick", "Quit", "RefreshTickMsg", "QuitMsg"}
\* commands running and results queued, the tick and quit aside
InFlight ==
    LET run(c) == IF c.type \in Unbounded THEN 0 ELSE CopiesIn(c, cmds)
        RECURSIVE Sum(_)
        Sum(S) == IF S = {} THEN 0
                  ELSE LET c == CHOOSE x \in S : TRUE IN run(c) + Sum(S \ {c})
    IN Sum(BagToSet(cmds))
       + Cardinality({i \in DOMAIN msgs : msgs[i].type \notin Unbounded})
\* q has been handled and tea.Quit has not yet ended the event loop
QuitPending == BagIn(QuitCmd, cmds) \/ \E i \in DOMAIN msgs : msgs[i] = QuitMsg
\* the user presses a key or resizes the terminal, and nothing after q
Accepts == InFlight <= overlap /\ ~QuitPending

\* Update returned `issued` for `msg`: the commands start running
Returned(msg, issued) ==
    /\ cmds' = cmds (+) SeqToBag(issued)
    /\ last' = [msg |-> msg, view |-> currentView, cmds |-> issued]

(***************************************************************************)
(* Model.Update: key presses                                               *)
(***************************************************************************)
\* the status line Update sets when a key changes the view
ViewStatus(view) ==
    CASE view = DashboardView -> <<"Dashboard View">>
      [] view = JobListView -> <<"Job List View">>
      [] view = JobDetailView -> <<"Job Detail View">>
      [] view = HelpView -> <<"Help View">>

\* a help key that leaves the help view for the job list; C2_HelpKey fails with it
HelpTargetJobList(view) == IF view = HelpView THEN JobListView ELSE HelpView

\* case key.Matches(msg, m.keys.Help): the view after the help key
HelpTarget(view) == IF view = HelpView THEN DashboardView ELSE HelpView

\* a back key that leaves the build log for the job list; C1_BackKey fails with it
BackTargetJobList(view) ==
    CASE view \in {JobDetailView, BuildLogView} -> JobListView
      [] view = HelpView -> DashboardView
      [] OTHER -> view

\* case key.Matches(msg, m.keys.Back): the view after the back key
BackTarget(view) ==
    CASE view = JobDetailView -> JobListView
      [] view = BuildLogView -> JobDetailView
      [] view = HelpView -> DashboardView
      [] OTHER -> view

\* a jobs key that fetches whether connected or not; C4_JobsKey fails with it
JobsKeyCmdsAlways(conn) == <<FetchJobsCmd>>

\* case key.Matches(msg, m.keys.Jobs): the commands the jobs key returns
JobsKeyCmds(conn) == IF conn THEN <<FetchJobsCmd>> ELSE <<>>

\* an enter that fetches the job's detail whether connected or not;
\* C5_EnterJobList fails with it
EnterJobCmdsAlways(conn, name) == <<FetchJobDetailCmd(name)>>

\* Enter in JobListView: the command fetching the selected job's detail
EnterJobCmds(conn, name) == IF conn THEN <<FetchJobDetailCmd(name)>> ELSE <<>>

\* an enter that fetches the log of the build before the selected one;
\* C6_EnterJobDetail fails with it
EnterBuildCmdsPrevious(conn, jobName, number) ==
    IF conn /\ jobName # NoJob THEN <<FetchBuildLogCmd(jobName, number - 1)>> ELSE <<>>

\* Enter in JobDetailView: the command fetching the selected build's log
EnterBuildCmds(conn, jobName, number) ==
    IF conn /\ jobName # NoJob THEN <<FetchBuildLogCmd(jobName, number)>> ELSE <<>>

\* JobListComponent.GetSelected / JobDetailComponent.GetSelectedBuild
GetSelected(j) == SelectedItem(j.list)
GetSelectedBuild(j) == SelectedItem(j.buildList)

\* the command list.Model.Update returns for a key: filterItems when the
\* text of the filter input changed
ListKeyCmds(l, k) ==
    IF /\ l.filterState = Filtering
       /\ ListKey(l, k).filterState = Filtering
       /\ ListKey(l, k).filterValue # l.filterValue
    THEN <<FilterItemsCmd(FilterMatches(ListKey(l, k)))>>
    ELSE <<>>

\* the filter input of the list in view is full: the model types no more
FilterFull(view) ==
    \/ /\ view = JobListView
       /\ jobList.list.filterState = Filtering
       /\ Len(jobList.list.filterValue) >= typing
    \/ /\ view = JobDetailView
       /\ jobDetail.buildList.filterState = Filtering
       /\ Len(jobDetail.buildList.filterValue) >= typing

\* the tail of Update: the message goes to the component in view.  Only
\* the two lists keep state that a key changes.
DispatchKey(view, k, issued) ==
    /\ jobList' = IF view = JobListView
                  THEN [jobList EXCEPT !.list = ListKey(jobList.list, k)]
                  ELSE jobList
    /\ jobDetail' = IF view = JobDetailView
                    THEN [jobDetail EXCEPT !.buildList = ListKey(jobDetail.buildList, k)]
                    ELSE jobDetail
    /\ Returned(KeyMsg(k),
                issued \o (CASE view = JobListView -> ListKeyCmds(jobList.list, k)
                            [] view = JobDetailView -> ListKeyCmds(jobDetail.buildList, k)
                            [] OTHER -> <<>>))

\* q: return m, tea.Quit
KeyQuit ==
    /\ Running /\ Accepts
    /\ Returned(KeyMsg("q"), <<QuitCmd>>)
    /\ UNCHANGED <<model, service, env, now, msgs, quit, panicked>>

\* ?: toggle the help view
KeyHelp ==
    /\ Running /\ Accepts
    /\ currentView' = HelpTarget(currentView)
    /\ statusMessage' = ViewStatus(currentView')
    /\ Returned(KeyMsg("?"), <<>>)
    /\ UNCHANGED <<connected, serverURL, errorMsg, selectedJob, selectedBuild, width, height,
                   dashboard, jobList, jobDetail, buildLog, helpView,
                   service, env, now, msgs, quit, panicked>>

\* d: the dashboard
KeyDashboard ==
    /\ Running /\ Accepts
    /\ currentView' = DashboardView
    /\ statusMessage' = ViewStatus(DashboardView)
    /\ Returned(KeyMsg("d"), <<>>)
    /\ UNCHANGED <<connected, serverURL, errorMsg, selectedJob, selectedBuild, width, height,
                   dashboard, jobList, jobDetail, buildLog, helpView,
                   service, env, now, msgs, quit, panicked>>

\* j: the job list, refetched when connected
KeyJobs ==
    /\ Running /\ Accepts
    /\ currentView' = JobListView
    /\ statusMessage' = ViewStatus(JobListView)
    /\ Returned(KeyMsg("j"), JobsKeyCmds(connected))
    /\ UNCHANGED <<connected, serverURL, errorMsg, selectedJob, selectedBuild, width, height,
                   dashboard, jobList, jobDetail, buildLog, helpView,
                   service, env, now, msgs, quit, panicked>>

\* enter in JobListView: open the selected job
KeyEnterJobList ==
    /\ Running /\ Accepts
    /\ currentView = JobListView
    /\ IF GetSelected(jobList) = <<>>
       THEN /\ Returned(KeyMsg("enter"), <<>>)
            /\ UNCHANGED <<selectedJob, currentView, statusMessage, panicked>>
       ELSE IF ~IsJobListItem(GetSelected(jobList)[1])
       THEN \* j.list.SelectedItem().(JobListItem) panics
            /\ panicked' = TRUE
            /\ Returned(KeyMsg("enter"), <<>>)
            /\ UNCHANGED <<selectedJob, currentView, statusMessage>>
       ELSE LET selected == GetSelected(jobList)[1] IN
            /\ selectedJob' = selected.Name
            /\ currentView' = JobDetailView
            /\ statusMessage' = <<"Job: %s", selected.Name>>
            /\ Returned(KeyMsg("enter"), EnterJobCmds(connected, selected.Name))
            /\ UNCHANGED panicked
    /\ UNCHANGED <<connected, serverURL, errorMsg, selectedBuild, width, height,
                   dashboard, jobList, jobDetail, buildLog, helpView,
                   service, env, now, msgs, quit>>

\* enter in JobDetailView: open the log of the selected build
KeyEnterJobDetail ==
    /\ Running /\ Accepts
    /\ currentView = JobDetailView
    /\ IF GetSelectedBuild(jobDetail) = <<>>
       THEN /\ Returned(KeyMsg("enter"), <<>>)
            /\ UNCHANGED <<selectedBuild, currentView, statusMessage, panicked>>
       ELSE IF IsJobListItem(GetSelectedBuild(jobDetail)[1])
       THEN \* j.buildList.SelectedItem().(BuildInfo) panics
            /\ panicked' = TRUE
            /\ Returned(KeyMsg("enter"), <<>>)
            /\ UNCHANGED <<selectedBuild, currentView, statusMessage>>
       ELSE LET selected == GetSelectedBuild(jobDetail)[1] IN
            /\ selectedBuild' = selected.Number
            /\ currentView' = BuildLogView
            /\ statusMessage' = <<"Build #%d Logs", selected.Number>>
            /\ Returned(KeyMsg("enter"),
                        EnterBuildCmds(connected, selectedJob, selected.Number))
            /\ UNCHANGED panicked
    /\ UNCHANGED <<connected, serverURL, errorMsg, selectedJob, width, height,
                   dashboard, jobList, jobDetail, buildLog, helpView,
                   service, env, now, msgs, quit>>

\* esc: one view back
KeyBack ==
    /\ Running /\ Accepts
    /\ currentView' = BackTarget(currentView)
    /\ statusMessage' = IF currentView' = currentView THEN statusMessage
                        ELSE ViewStatus(currentView')
    /\ Returned(KeyMsg("esc"), <<>>)
    /\ UNCHANGED <<connected, serverURL, errorMsg, selectedJob, selectedBuild, width, height,
                   dashboard, jobList, jobDetail, buildLog, helpView,
                   service, env, now, msgs, quit, panicked>>

\* keys the switch of Update does not return from: every key without a
\* case of its own (r among them), and enter outside the two list views
Unhandled(view) ==
    (Keys \ {"q", "?", "d", "j", "enter", "esc"})
        \cup (IF view \in {JobListView, JobDetailView} THEN {} ELSE {"enter"})

KeyOther(k) ==
    /\ Running /\ Accepts
    /\ k \in Unhandled(currentView)
    /\ ~(k \in Printable /\ FilterFull(currentView))
    /\ DispatchKey(currentView, k, <<>>)
    /\ UNCHANGED <<currentView, connected, serverURL, statusMessage, errorMsg, selectedJob,
                   selectedBuild, width, height, dashboard, buildLog, helpView,
                   service, env, now, msgs, quit, panicked>>

(***************************************************************************)
(* Model.Update: tea.WindowSizeMsg                                         *)
(***************************************************************************)
\* a resize that reaches the BuildLog component only while it is the active
\* view; C17_Dimensions fails with it
ResizeBuildLogActive(b, w, h) ==
    IF currentView = BuildLogView
    THEN [b EXCEPT !.width = w, !.height = h, !.vpWidth = w - 4, !.vpHeight = h - 10,
                   !.ready = TRUE,
                   !.content = IF b.ready THEN b.content ELSE formatLog(b.log)]
    ELSE b

\* BuildLogComponent.Update: the first resize makes the viewport and gives
\* it the formatted log
ResizeBuildLog(b, w, h) ==
    [b EXCEPT !.width = w, !.height = h, !.vpWidth = w - 4, !.vpHeight = h - 10,
              !.ready = TRUE,
              !.content = IF b.ready THEN b.content ELSE formatLog(b.log)]

Resize(w, h) ==
    /\ Running /\ Accepts
    /\ width' = w
    /\ height' = h
    /\ dashboard' = [dashboard EXCEPT !.width = w, !.height = h]
    /\ jobList' = [jobList EXCEPT !.width = w, !.height = h]
    /\ jobDetail' = [jobDetail EXCEPT !.width = w, !.height = h]
    /\ buildLog' = ResizeBuildLog(buildLog, w, h)
    /\ helpView' = [helpView EXCEPT !.width = w, !.height = h]
    /\ Returned(WindowSizeMsg(w, h), <<>>)
    /\ UNCHANGED <<currentView, connected, serverURL, statusMessage, errorMsg, selectedJob,
                   selectedBuild, service, env, now, msgs, quit, panicked>>

(***************************************************************************)
(* JenkinsService                                                          *)
(***************************************************************************)
\* a ShouldRefresh whose interval, when not positive, becomes one second
ShouldRefreshFloorOne(svc, interval, t) ==
    LET refreshInterval == IF interval <= 0 THEN 1 ELSE interval
    IN ~svc.lastRefresh.set \/ t - svc.lastRefresh.at > refreshInterval
\* JenkinsService.ShouldRefresh at time t (the config is always loaded)
ShouldRefresh(svc, interval, t) ==
    LET refreshInterval == IF interval <= 0 THEN DefaultRefreshInterval ELSE interval
    IN ~svc.lastRefresh.set \/ t - svc.lastRefresh.at > refreshInterval

\* JenkinsService.Connect when client.GetServerInfo fails
ConnectFailed(svc, err) == [svc EXCEPT !.connected = FALSE, !.lastError = err]

\* a Connect that gives up when the node listing fails
ConnectOkStrict(svc, info, nodes, t) ==
    IF nodes = <<>> THEN [svc EXCEPT !.connected = FALSE, !.lastError = ErrNodes]
    ELSE [svc EXCEPT !.connected = TRUE,
                     !.serverInfo = [info EXCEPT !.Nodes = nodes[1]],
                     !.lastRefresh = [set |-> TRUE, at |-> t]]

\* JenkinsService.Connect when client.GetServerInfo returns info; nodes is
\* <<>> when client.GetNodes fails and <<list>> otherwise
ConnectOk(svc, info, nodes, t) ==
    [svc EXCEPT !.connected = TRUE,
                !.lastError = IF nodes = <<>> THEN ErrNodes ELSE svc.lastError,
                !.serverInfo = IF nodes = <<>> THEN info
                               ELSE [info EXCEPT !.Nodes = nodes[1]],
                !.lastRefresh = [set |-> TRUE, at |-> t]]

\* the guard every Get* starts with, and the state after a failed call
CallFailed(svc) == [svc EXCEPT !.lastError = ErrRequest]

(***************************************************************************)
(* JenkinsService called directly, as its callers and tests may: `last`    *)
(* then holds the call made last with the error it returned (msg) and the  *)
(* calls it made to the server client (cmds)                               *)
(***************************************************************************)
\* the operations that start with the connected guard
ServiceOps == {"GetJobs", "GetJobDetails", "GetBuildDetails", "GetBuildLog",
               "TriggerBuild", "StopBuild", "DeleteJob"}

Called(op, err, calls) ==
    last' = [msg |-> [type |-> op, err |-> err], view |-> currentView, cmds |-> calls]

\* a guard that lets every call through; C23_DisconnectedGuard fails with it
NotConnectedNever(svc) == FALSE

\* if !s.connected { return ..., fmt.Errorf("not connected to Jenkins server") }
NotConnected(svc) == ~svc.connected

\* one of the guarded operations, the server answering if it is asked
CallService(op) ==
    /\ Running
    /\ IF NotConnected(service)
       THEN Called(op, ErrNotConnected, <<>>)
       ELSE Called(op, NoError, <<[client |-> op]>>)
    /\ UNCHANGED <<model, service, env, now, cmds, msgs, quit, panicked>>

\* one of the guarded operations, the request failing
FailService(op) ==
    /\ Running
    /\ ~NotConnected(service)
    /\ service' = CallFailed(service)
    /\ Called(op, ErrRequest, <<[client |-> op]>>)
    /\ UNCHANGED <<model, env, now, cmds, msgs, quit, panicked>>

\* JenkinsService.Connect
CallConnect ==
    /\ Running
    /\ \E info \in ServerInfos, nodes \in NodeLists :
          service' = ConnectOk(service, info, <<nodes>>, now)
    /\ Called("Connect", NoError, <<[client |-> "GetServerInfo"], [client |-> "GetNodes"]>>)
    /\ UNCHANGED <<model, env, now, cmds, msgs, quit, panicked>>

\* JenkinsService.Connect: client.GetNodes fails
CallConnectNoNodes ==
    /\ Running
    /\ \E info \in ServerInfos : service' = ConnectOk(service, info, <<>>, now)
    /\ Called("Connect", NoError,
              <<[client |-> "GetServerInfo"], [client |-> "GetNodes", err |-> ErrNodes]>>)
    /\ UNCHANGED <<model, env, now, cmds, msgs, quit, panicked>>

\* JenkinsService.Connect: client.GetServerInfo fails
CallConnectFails ==
    /\ Running
    /\ service' = ConnectFailed(service, ErrRequest)
    /\ Called("Connect", ErrRequest, <<[client |-> "GetServerInfo"]>>)
    /\ UNCHANGED <<model, env, now, cmds, msgs, quit, panicked>>

(***************************************************************************)
(* The commands: the closures returned by Model.Connect, Model.Fetch*,     *)
(* RefreshTick, tea.Quit and the list's filterItems                        *)
(***************************************************************************)
\* a running command ends and its message joins the queue
DeliverNothing(c, msg) ==
    /\ cmds' = cmds (-) SetToBag({c})
    /\ UNCHANGED <<model, env, now, msgs, quit, panicked, last>>
Deliver(c, msg) ==
    /\ cmds' = cmds (-) SetToBag({c})
    /\ msgs' = Append(msgs, msg)
    /\ UNCHANGED <<model, env, now, quit, panicked, last>>

\* Model.Connect: the server answers both requests
RunConnect ==
    /\ Running
    /\ BagIn(ConnectCmd, cmds)
    /\ \E info \in ServerInfos, nodes \in NodeLists :
          /\ service' = ConnectOk(service, info, <<nodes>>, now)
          /\ Deliver(ConnectCmd, connectMsg(NoError, service'.serverInfo))

\* Model.Connect: client.GetServerInfo succeeds and client.GetNodes fails
RunConnectNoNodes ==
    /\ Running
    /\ BagIn(ConnectCmd, cmds)
    /\ \E info \in ServerInfos :
          /\ service' = ConnectOk(service, info, <<>>, now)
          /\ Deliver(ConnectCmd, connectMsg(NoError, service'.serverInfo))

\* Model.Connect: the server has any nodes
RunConnectAnyNodes ==
    /\ Running
    /\ BagIn(ConnectCmd, cmds)
    /\ \E info \in ServerInfos, nodes \in AnyNodeLists :
          /\ service' = ConnectOk(service, info, <<nodes>>, now)
          /\ Deliver(ConnectCmd, connectMsg(NoError, service'.serverInfo))

\* Model.Connect: client.GetServerInfo fails
FailConnect ==
    /\ Running
    /\ BagIn(ConnectCmd, cmds)
    /\ service' = ConnectFailed(service, ErrRequest)
    /\ Deliver(ConnectCmd, connectMsg(ErrRequest, NoServerInfo))

\* Model.FetchJobs
RunFetchJobs ==
    /\ Running
    /\ BagIn(FetchJobsCmd, cmds)
    /\ IF ~service.connected
       THEN Deliver(FetchJobsCmd, fetchJobsMsg(<<>>, ErrNotConnected))
       ELSE \E jobs \in JobLists : Deliver(FetchJobsCmd, fetchJobsMsg(jobs, NoError))
    /\ UNCHANGED service

\* api.GetStatusFromColor
GetStatusFromColor(color) ==
    CASE color \in {"blue", "blue_anime"} ->
            [status |-> "success", inProgress |-> color = "blue_anime"]
      [] color \in {"red", "red_anime"} ->
            [status |-> "failure", inProgress |-> color = "red_anime"]
      [] color \in {"yellow", "yellow_anime"} ->
            [status |-> "unstable", inProgress |-> color = "yellow_anime"]
      [] color \in {"grey", "grey_anime", "disabled", "disabled_anime"} ->
            [status |-> "disabled",
             inProgress |-> (color = "grey_anime" \/ color = "disabled_anime")]
      [] color \in {"aborted", "aborted_anime"} ->
            [status |-> "aborted", inProgress |-> color = "aborted_anime"]
      [] OTHER -> [status |-> "unknown", inProgress |-> FALSE]

\* a conversion that takes yellow for a failure and every animated token
\* for a job in progress; C26_JobColor fails with it
JobFromColorLoose(jobData) ==
    [Name |-> jobData.Name, Color |-> jobData.Color,
     Status |-> CASE jobData.Color \in {"blue", "blue_anime"} -> "success"
                  [] jobData.Color \in {"red", "red_anime", "yellow", "yellow_anime"} -> "failure"
                  [] jobData.Color \in {"grey", "grey_anime", "disabled", "disabled_anime"} -> "disabled"
                  [] jobData.Color \in {"aborted", "aborted_anime"} -> "aborted"
                  [] OTHER -> "unknown",
     InProgress |-> jobData.Color \in {"blue_anime", "red_anime", "yellow_anime", "grey_anime",
                                       "disabled_anime", "aborted_anime", "notbuilt_anime"}]

\* JenkinsClient.GetJobs: the Job made of one job of the answer, with the
\* switch on the color written out in the loop
JobFromColor(jobData) ==
    [Name |-> jobData.Name, Color |-> jobData.Color,
     Status |-> CASE jobData.Color \in {"blue", "blue_anime"} -> "success"
                  [] jobData.Color \in {"red", "red_anime"} -> "failure"
                  [] jobData.Color \in {"yellow", "yellow_anime"} -> "unstable"
                  [] jobData.Color \in {"grey", "grey_anime", "disabled", "disabled_anime"} -> "disabled"
                  [] jobData.Color \in {"aborted", "aborted_anime"} -> "aborted"
                  [] OTHER -> "unknown",
     InProgress |-> CASE jobData.Color \in {"blue", "blue_anime"} -> jobData.Color = "blue_anime"
                      [] jobData.Color \in {"red", "red_anime"} -> jobData.Color = "red_anime"
                      [] jobData.Color \in {"yellow", "yellow_anime"} -> jobData.Color = "yellow_anime"
                      [] jobData.Color \in {"grey", "grey_anime", "disabled", "disabled_anime"} ->
                            (jobData.Color = "grey_anime" \/ jobData.Color = "disabled_anime")
                      [] jobData.Color \in {"aborted", "aborted_anime"} -> jobData.Color = "aborted_anime"
                      [] OTHER -> FALSE]

\* Model.FetchJobs: the client converts the jobs of the server's answer
RunFetchJobsColored ==
    /\ Running
    /\ BagIn(FetchJobsCmd, cmds)
    /\ service.connected
    /\ \E answer \in ColoredJobLists :
          Deliver(FetchJobsCmd,
                  fetchJobsMsg([i \in DOMAIN answer |-> JobFromColor(answer[i])], NoError))
    /\ UNCHANGED service

\* Model.FetchJobs: the server has no jobs
RunFetchJobsEmpty ==
    /\ Running
    /\ BagIn(FetchJobsCmd, cmds)
    /\ service.connected
    /\ Deliver(FetchJobsCmd, fetchJobsMsg(<<>>, NoError))
    /\ UNCHANGED service

\* Model.FetchJobs: the request fails
FailFetchJobs ==
    /\ Running
    /\ BagIn(FetchJobsCmd, cmds)
    /\ service.connected
    /\ service' = CallFailed(service)
    /\ Deliver(FetchJobsCmd, fetchJobsMsg(<<>>, ErrRequest))

\* Model.FetchJobDetail
RunFetchJobDetail(c) ==
    /\ Running
    /\ BagIn(c, cmds) /\ c.type = "FetchJobDetail"
    /\ IF ~service.connected
       THEN Deliver(c, fetchJobDetailMsg(<<>>, ErrNotConnected))
       ELSE \E detail \in JobDetailsOf(c.job) :
               Deliver(c, fetchJobDetailMsg(detail, NoError))
    /\ UNCHANGED service

\* Model.FetchJobDetail: the server names a last build and lists no builds
RunFetchJobDetailLastOnly(c) ==
    /\ Running
    /\ BagIn(c, cmds) /\ c.type = "FetchJobDetail"
    /\ service.connected
    /\ Deliver(c, fetchJobDetailMsg([Name |-> c.job, Description |-> "", URL |-> "/job",
                                     Builds |-> <<>>, LastBuild |-> <<1>>], NoError))
    /\ UNCHANGED service

\* Model.FetchJobDetail: the request fails
FailFetchJobDetail(c) ==
    /\ Running
    /\ BagIn(c, cmds) /\ c.type = "FetchJobDetail"
    /\ service.connected
    /\ service' = CallFailed(service)
    /\ Deliver(c, fetchJobDetailMsg(<<>>, ErrRequest))

\* Model.FetchBuildDetail
RunFetchBuildDetail(c) ==
    /\ Running
    /\ BagIn(c, cmds) /\ c.type = "FetchBuildDetail"
    /\ IF ~service.connected
       THEN Deliver(c, fetchBuildDetailMsg(<<>>, ErrNotConnected))
       ELSE \E detail \in BuildDetailsOf(c.job, c.build) :
               Deliver(c, fetchBuildDetailMsg(detail, NoError))
    /\ UNCHANGED service

\* Model.FetchBuildDetail: the build has any result
RunFetchBuildDetailAny(c) ==
    /\ Running
    /\ BagIn(c, cmds) /\ c.type = "FetchBuildDetail"
    /\ service.connected
    /\ \E detail \in AnyBuildDetailsOf(c.job, c.build) :
          Deliver(c, fetchBuildDetailMsg(detail, NoError))
    /\ UNCHANGED service

\* Model.FetchBuildDetail: the request fails
FailFetchBuildDetail(c) ==
    /\ Running
    /\ BagIn(c, cmds) /\ c.type = "FetchBuildDetail"
    /\ service.connected
    /\ service' = CallFailed(service)
    /\ Deliver(c, fetchBuildDetailMsg(<<>>, ErrRequest))

\* Model.FetchBuildLog
RunFetchBuildLog(c) ==
    /\ Running
    /\ BagIn(c, cmds) /\ c.type = "FetchBuildLog"
    /\ IF ~service.connected
       THEN Deliver(c, fetchBuildLogMsg(NoLog, ErrNotConnected))
       ELSE Deliver(c, fetchBuildLogMsg(LogOf(c.job, c.build), NoError))
    /\ UNCHANGED service

\* Model.FetchBuildLog: the request fails
FailFetchBuildLog(c) ==
    /\ Running
    /\ BagIn(c, cmds) /\ c.type = "FetchBuildLog"
    /\ service.connected
    /\ service' = CallFailed(service)
    /\ Deliver(c, fetchBuildLogMsg(NoLog, ErrRequest))

\* RefreshTick: the timer fires when its duration has passed
RunRefreshTick(c) ==
    /\ Running
    /\ BagIn(c, cmds) /\ c.type = "RefreshTick"
    /\ now >= c.due
    /\ Deliver(c, RefreshTickMsg(c.due))
    /\ UNCHANGED service

\* the list's filterItems
RunFilterItems(c) ==
    /\ Running
    /\ BagIn(c, cmds) /\ c.type = "filterItems"
    /\ Deliver(c, FilterMatchesMsg(c.items))
    /\ UNCHANGED service

\* tea.Quit
RunQuit ==
    /\ Running
    /\ BagIn(QuitCmd, cmds)
    /\ Deliver(QuitCmd, QuitMsg)
    /\ UNCHANGED service

\* a tick period passes, but not past a timer that is due nor past the limit
AdvanceTo(limit) ==
    /\ Running
    /\ now + TickPeriod <= limit
    /\ \A c \in BagToSet(cmds) : c.type = "RefreshTick" => now + TickPeriod <= c.due
    /\ now' = now + TickPeriod
    /\ UNCHANGED <<model, service, env, cmds, msgs, quit, panicked, last>>

\* the clock of the main specification
Advance == AdvanceTo(MaxTicks * TickPeriod)

\* a clock that stops after the first tick period
AdvanceOnce == AdvanceTo(TickPeriod)

(***************************************************************************)
(* Model.Update: the results of commands                                   *)
(***************************************************************************)
\* the event loop takes the next message of the given type
Take(type) ==
    /\ Running
    /\ msgs # <<>>
    /\ Head(msgs).type = type
    /\ msgs' = Tail(msgs)

\* a count of the nodes that are online, idle or not; C27_FreeNodes fails
\* with it
RECURSIVE countOnlineNodes(_)
countOnlineNodes(nodes) ==
    IF nodes = <<>> THEN 0
    ELSE (IF Head(nodes).Online THEN 1 ELSE 0) + countOnlineNodes(Tail(nodes))

\* countFreeNodes
RECURSIVE countFreeNodes(_)
countFreeNodes(nodes) ==
    IF nodes = <<>> THEN 0
    ELSE (IF Head(nodes).Online /\ Head(nodes).Idle THEN 1 ELSE 0)
         + countFreeNodes(Tail(nodes))

\* the components.ServerInfo Update builds from a successful connectMsg
DashboardInfo(info) ==
    [URL |-> info.URL, Version |-> info.Version, Connected |-> TRUE, Mode |-> info.Mode,
     Uptime |-> info.Uptime, TotalNodes |-> Len(info.Nodes),
     FreeNodes |-> countFreeNodes(info.Nodes)]

\* DashboardComponent.WithServerInfo
WithServerInfo(d, info) == [d EXCEPT !.serverInfo = info]

\* the dashboard after a failed connectMsg: Update does not touch it
DashboardOnConnectError(d) == d

\* a connectMsg after which nothing is fetched; C7_ConnectOk fails with it
ConnectMsgCmdsNone(err) == <<>>

\* a connectMsg after which the jobs are fetched even on an error;
\* C8_ConnectFailed fails with it
ConnectMsgCmdsAlways(err) == <<FetchJobsCmd>>

\* the commands Update returns for a connectMsg
ConnectMsgCmds(err) == IF err # NoError THEN <<>> ELSE <<FetchJobsCmd>>

\* case connectMsg
ProcessConnect ==
    /\ Take("connectMsg")
    /\ LET msg == Head(msgs) IN
       /\ IF msg.err # NoError
          THEN /\ connected' = FALSE
               /\ errorMsg' = "Connection error: %v"
               /\ statusMessage' = <<"Connection failed">>
               /\ dashboard' = DashboardOnConnectError(dashboard)
               /\ UNCHANGED serverURL
          ELSE /\ connected' = TRUE
               /\ statusMessage' = <<"Connected to Jenkins">>
               /\ serverURL' = msg.serverInfo.URL
               /\ dashboard' = WithServerInfo(dashboard, DashboardInfo(msg.serverInfo))
               /\ UNCHANGED errorMsg
       /\ Returned(msg, ConnectMsgCmds(msg.err))
    /\ UNCHANGED <<currentView, selectedJob, selectedBuild, width, height, jobList,
                   jobDetail, buildLog, helpView, service, env, now, quit, panicked>>

\* the JobListItem Update makes of an api.Job
JobItems(jobs) == [i \in DOMAIN jobs |-> [Name |-> jobs[i].Name, Status |-> jobs[i].Status]]

\* a WithJobs that merges the new jobs into the old; C11_JobsResult fails with it
WithJobsMerged(j, items, cursor) ==
    [j EXCEPT !.list = SetItems(j.list, j.list.items \o items, cursor)]

\* JobListComponent.WithJobs, the cursor left at `cursor`
WithJobs(j, items, cursor) == [j EXCEPT !.list = SetItems(j.list, items, cursor)]

\* case fetchJobsMsg
ProcessFetchJobs ==
    /\ Take("fetchJobsMsg")
    /\ LET msg == Head(msgs) IN
       /\ IF msg.err # NoError
          THEN /\ errorMsg' = "Failed to fetch jobs: %v"
               /\ UNCHANGED jobList
          ELSE /\ \E cursor \in SetItemsCursors(jobList.list, JobItems(msg.jobs)) :
                     jobList' = WithJobs(jobList, JobItems(msg.jobs), cursor)
               /\ UNCHANGED errorMsg
       /\ Returned(msg, <<>>)
    /\ UNCHANGED <<currentView, connected, serverURL, statusMessage, selectedJob,
                   selectedBuild, width, height, dashboard, jobDetail, buildLog, helpView,
                   service, env, now, quit, panicked>>

\* the BuildInfo Update makes of the builds of an api.JobDetail
BuildItems(builds) == [i \in DOMAIN builds |-> [Number |-> builds[i]]]

\* JobDetailComponent.WithJobDetail
WithJobDetail(j, name, description, url) ==
    [j EXCEPT !.jobName = name, !.description = description, !.jobURL = url]

\* JobDetailComponent.WithBuilds, the cursor left at `cursor`
WithBuilds(j, items, cursor) == [j EXCEPT !.buildList = SetItems(j.buildList, items, cursor)]

\* a fetchJobDetailMsg after which the last build is fetched whether or not
\* builds are listed; C12_JobDetailResult fails with it
JobDetailMsgCmdsLast(detail) ==
    IF detail.LastBuild # <<>>
    THEN <<FetchBuildDetailCmd(detail.Name, detail.LastBuild[1])>>
    ELSE <<>>

\* the commands Update returns for a successful fetchJobDetailMsg
JobDetailMsgCmds(detail) ==
    IF Len(detail.Builds) > 0 /\ detail.LastBuild # <<>>
    THEN <<FetchBuildDetailCmd(detail.Name, detail.LastBuild[1])>>
    ELSE <<>>

\* a fetchJobDetailMsg handler that rolls the JobDetail view back to empty when
\* the fetch failed; C16_FailedFetchFrame fails with it
ProcessFetchJobDetailReset ==
    /\ Take("fetchJobDetailMsg")
    /\ LET msg == Head(msgs)
           detail == msg.jobDetail
       IN
       /\ IF msg.err # NoError
          THEN /\ errorMsg' = "Failed to fetch job details: %v"
               /\ Returned(msg, <<>>)
               /\ jobDetail' = NewJobDetail
               /\ UNCHANGED selectedBuild
          ELSE /\ LET named == WithJobDetail(jobDetail, detail.Name, detail.Description,
                                              detail.URL)
                  IN IF Len(detail.Builds) > 0
                     THEN \E cursor \in SetItemsCursors(named.buildList,
                                                        BuildItems(detail.Builds)) :
                            jobDetail' = WithBuilds(named, BuildItems(detail.Builds), cursor)
                     ELSE jobDetail' = named
               /\ selectedBuild' = IF Len(detail.Builds) > 0 /\ detail.LastBuild # <<>>
                                   THEN detail.LastBuild[1]
                                   ELSE selectedBuild
               /\ Returned(msg, JobDetailMsgCmds(detail))
               /\ UNCHANGED errorMsg
    /\ UNCHANGED <<currentView, connected, serverURL, statusMessage, selectedJob,
                   width, height, dashboard, jobList, buildLog, helpView,
                   service, env, now, quit, panicked>>

\* case fetchJobDetailMsg
ProcessFetchJobDetail ==
    /\ Take("fetchJobDetailMsg")
    /\ LET msg == Head(msgs)
           detail == msg.jobDetail
       IN
       /\ IF msg.err # NoError
          THEN /\ errorMsg' = "Failed to fetch job details: %v"
               /\ Returned(msg, <<>>)
               /\ UNCHANGED <<jobDetail, selectedBuild>>
          ELSE /\ LET named == WithJobDetail(jobDetail, detail.Name, detail.Description,
                                              detail.URL)
                  IN IF Len(detail.Builds) > 0
                     THEN \E cursor \in SetItemsCursors(named.buildList,
                                                        BuildItems(detail.Builds)) :
                            jobDetail' = WithBuilds(named, BuildItems(detail.Builds), cursor)
                     ELSE jobDetail' = named
               /\ selectedBuild' = IF Len(detail.Builds) > 0 /\ detail.LastBuild # <<>>
                                   THEN detail.LastBuild[1]
                                   ELSE selectedBuild
               /\ Returned(msg, JobDetailMsgCmds(detail))
               /\ UNCHANGED errorMsg
    /\ UNCHANGED <<currentView, connected, serverURL, statusMessage, selectedJob,
                   width, height, dashboard, jobList, buildLog, helpView,
                   service, env, now, quit, panicked>>

\* a mapping that looks at the result before the building flag;
\* C25_BuildStatus fails with it
GetStatusResultFirst(result, building) ==
    CASE result = "SUCCESS" -> "success"
      [] result = "FAILURE" -> "failed"
      [] result = "ABORTED" -> "aborted"
      [] result = "UNSTABLE" -> "failed"
      [] result = "NOT_BUILT" -> "waiting"
      [] OTHER -> IF building THEN "running" ELSE "unknown"

\* api.GetStatusFromResult
GetStatusFromResult(result, building) ==
    IF building THEN "running"
    ELSE CASE result = "SUCCESS" -> "success"
           [] result = "FAILURE" -> "failed"
           [] result = "ABORTED" -> "aborted"
           [] result = "UNSTABLE" -> "failed"
           [] result = "NOT_BUILT" -> "waiting"
           [] OTHER -> "unknown"

\* JobDetailComponent.WithLastBuildInfo
WithLastBuildInfo(j, build) == [j EXCEPT !.lastBuild = <<build>>]

\* case fetchBuildDetailMsg
ProcessFetchBuildDetail ==
    /\ Take("fetchBuildDetailMsg")
    /\ LET msg == Head(msgs) IN
       /\ IF msg.err # NoError
          THEN /\ errorMsg' = "Failed to fetch build details: %v"
               /\ UNCHANGED jobDetail
          ELSE /\ jobDetail' = WithLastBuildInfo(jobDetail,
                     [Number |-> msg.buildDetail.Number,
                      Status |-> GetStatusFromResult(msg.buildDetail.Result,
                                                     msg.buildDetail.Building)])
               /\ UNCHANGED errorMsg
       /\ Returned(msg, <<>>)
    /\ UNCHANGED <<currentView, connected, serverURL, statusMessage, selectedJob,
                   selectedBuild, width, height, dashboard, jobList, buildLog, helpView,
                   service, env, now, quit, panicked>>

\* a log view that keeps the first text it was given; C14_LastLogWins fails with it
WithLogFirst(b, log) ==
    IF b.log = NoLog
    THEN [b EXCEPT !.log = log,
                   !.content = IF b.ready THEN formatLog(log) ELSE b.content]
    ELSE b

\* BuildLogComponent.WithLog then WithJobAndBuild
WithLog(b, log) ==
    [b EXCEPT !.log = log,
              !.content = IF b.ready THEN formatLog(log) ELSE b.content]
WithJobAndBuild(b, jobName, buildNum) == [b EXCEPT !.jobName = jobName, !.buildNum = buildNum]

\* BuildLogComponent.WithLog called with a console text
ShowLog(text) ==
    /\ Running
    /\ buildLog' = WithLog(buildLog, text)
    /\ UNCHANGED <<currentView, connected, serverURL, statusMessage, errorMsg, selectedJob,
                   selectedBuild, width, height, dashboard, jobList, jobDetail, helpView,
                   service, env, now, cmds, msgs, quit, panicked, last>>

\* case fetchBuildLogMsg
ProcessFetchBuildLog ==
    /\ Take("fetchBuildLogMsg")
    /\ LET msg == Head(msgs) IN
       /\ IF msg.err # NoError
          THEN /\ errorMsg' = "Failed to fetch build log: %v"
               /\ UNCHANGED buildLog
          ELSE /\ buildLog' = WithJobAndBuild(WithLog(buildLog, msg.buildLog),
                                              selectedJob, selectedBuild)
               /\ UNCHANGED errorMsg
       /\ Returned(msg, <<>>)
    /\ UNCHANGED <<currentView, connected, serverURL, statusMessage, selectedJob,
                   selectedBuild, width, height, dashboard, jobList, jobDetail, helpView,
                   service, env, now, quit, panicked>>

\* a tick that reconnects every time; C10_Tick fails with it
TickCmdsAlways(svc, interval, t) == <<ConnectCmd, RefreshTickCmd(t + TickPeriod)>>

\* a tick handler that schedules no successor when it reconnects
TickCmdsLost(svc, interval, t) ==
    IF ShouldRefresh(svc, interval, t) THEN <<ConnectCmd>>
    ELSE <<RefreshTickCmd(t + TickPeriod)>>

\* the commands Update returns for a RefreshTickMsg handled at time t
TickCmds(svc, interval, t) ==
    (IF ShouldRefresh(svc, interval, t) THEN <<ConnectCmd>> ELSE <<>>)
        \o <<RefreshTickCmd(t + TickPeriod)>>

\* a tick handler that also returns to the dashboard; C40_ResultsKeepView
\* fails with it
ProcessRefreshTickHome ==
    /\ Take("RefreshTickMsg")
    /\ Returned(Head(msgs), TickCmds(service, config.RefreshInterval, now))
    /\ currentView' = DashboardView
    /\ UNCHANGED <<connected, serverURL, statusMessage, errorMsg, selectedJob, selectedBuild,
                   width, height, dashboard, jobList, jobDetail, buildLog, helpView,
                   service, env, now, quit, panicked>>

\* case RefreshTickMsg
ProcessRefreshTick ==
    /\ Take("RefreshTickMsg")
    /\ Returned(Head(msgs), TickCmds(service, config.RefreshInterval, now))
    /\ UNCHANGED <<model, service, env, now, quit, panicked>>

\* list.FilterMatchesMsg has no case in Update: it goes to the component
\* in view, whose list takes it as the matches of its own filter
ProcessFilterMatches ==
    /\ Take("FilterMatchesMsg")
    /\ LET msg == Head(msgs) IN
       /\ jobList' = IF currentView = JobListView
                     THEN [jobList EXCEPT !.list.filteredItems = msg.items]
                     ELSE jobList
       /\ jobDetail' = IF currentView = JobDetailView
                       THEN [jobDetail EXCEPT !.buildList.filteredItems = msg.items]
                       ELSE jobDetail
       /\ Returned(msg, <<>>)
    /\ UNCHANGED <<currentView, connected, serverURL, statusMessage, errorMsg, selectedJob,
                   selectedBuild, width, height, dashboard, buildLog, helpView,
                   service, env, now, quit, panicked>>

\* tea.QuitMsg ends the event loop
ProcessQuit ==
    /\ Take("QuitMsg")
    /\ quit' = TRUE
    /\ UNCHANGED <<model, service, env, now, cmds, panicked, last>>

(***************************************************************************)
(* The program                                                             *)
(***************************************************************************)
\* the keys of the main specification: navigation, the refresh key, the
\* build key of the README, the cursor
NavKeys == {"r", "b", "down"}

\* A user who navigates with the application's keys and the cursor once the
\* screen has settled, a server that answers every request it accepts or
\* refuses a connection, and a clock
Next ==
    \/ KeyHelp
    \/ KeyDashboard
    \/ KeyJobs
    \/ KeyEnterJobList
    \/ KeyEnterJobDetail
    \/ KeyBack
    \/ \E k \in NavKeys : KeyOther(k)
    \/ RunConnect
    \/ FailConnect
    \/ RunFetchJobs
    \/ \E c \in BagToSet(cmds) : RunFetchJobDetail(c)
    \/ \E c \in BagToSet(cmds) : RunFetchBuildDetail(c)
    \/ \E c \in BagToSet(cmds) : RunFetchBuildLog(c)
    \/ \E c \in BagToSet(cmds) : RunRefreshTick(c)
    \/ Advance
    \/ ProcessConnect
    \/ ProcessFetchJobs
    \/ ProcessFetchJobDetail
    \/ ProcessFetchBuildDetail
    \/ ProcessFetchBuildLog
    \/ ProcessRefreshTick

Spec == Init /\ [][Next]_vars

\* the keys of the filter specification: the filter input and the cursor
FilterKeys == {"/", "down"} \cup FilterChars

\* A user who opens jobs from the job list and types into its filter, once
\* the screen has settled, with the server of Next and one tick of the clock:
\* time enough to lose the connection
NextFilter ==
    \/ KeyJobs
    \/ KeyEnterJobList
    \/ KeyBack
    \/ \E k \in FilterKeys : KeyOther(k)
    \/ RunConnect
    \/ FailConnect
    \/ RunFetchJobs
    \/ \E c \in BagToSet(cmds) : RunFetchJobDetail(c)
    \/ \E c \in BagToSet(cmds) : RunFetchBuildDetail(c)
    \/ \E c \in BagToSet(cmds) : RunRefreshTick(c)
    \/ \E c \in BagToSet(cmds) : RunFilterItems(c)
    \/ AdvanceOnce
    \/ ProcessConnect
    \/ ProcessFetchJobs
    \/ ProcessFetchJobDetail
    \/ ProcessFetchBuildDetail
    \/ ProcessRefreshTick
    \/ ProcessFilterMatches

SpecFilter == Init /\ [][NextFilter]_vars

\* a user who types up to MaxSearchLen characters into a filter input
InitSearch ==
    /\ Start
    /\ config = [RefreshInterval |-> ShortRefreshInterval]
    /\ overlap = 0
    /\ typing = MaxSearchLen

\* the keys of the search specification: the filter key and letters of job names
SearchKeys == {"/", "a", "b"}

\* A user who searches the job list for a job by typing part of its name
\* and opens what the list selects, once the screen has settled; the server
\* answers every request
NextSearch ==
    \/ KeyJobs
    \/ KeyEnterJobList
    \/ KeyBack
    \/ \E k \in SearchKeys : KeyOther(k)
    \/ RunConnect
    \/ RunFetchJobs
    \/ \E c \in BagToSet(cmds) : RunFetchJobDetail(c)
    \/ \E c \in BagToSet(cmds) : RunFetchBuildDetail(c)
    \/ \E c \in BagToSet(cmds) : RunFilterItems(c)
    \/ ProcessConnect
    \/ ProcessFetchJobs
    \/ ProcessFetchJobDetail
    \/ ProcessFetchBuildDetail
    \/ ProcessFilterMatches

SpecSearch == InitSearch /\ [][NextSearch]_vars

\* an eager user: keys are pressed while a command is still outstanding
InitEager ==
    /\ Start
    /\ config = [RefreshInterval |-> ShortRefreshInterval]
    /\ overlap = MaxOverlap
    /\ typing = MaxFilterLen

\* An eager user who walks from the job list to the build logs and back,
\* always opening the entry under the cursor, while results are still on
\* their way; the server answers every request
NextEager ==
    \/ KeyJobs
    \/ KeyEnterJobList
    \/ KeyEnterJobDetail
    \/ KeyBack
    \/ RunConnect
    \/ RunFetchJobs
    \/ \E c \in BagToSet(cmds) : RunFetchJobDetail(c)
    \/ \E c \in BagToSet(cmds) : RunFetchBuildDetail(c)
    \/ \E c \in BagToSet(cmds) : RunFetchBuildLog(c)
    \/ ProcessConnect
    \/ ProcessFetchJobs
    \/ ProcessFetchJobDetail
    \/ ProcessFetchBuildDetail
    \/ ProcessFetchBuildLog

SpecEager == InitEager /\ [][NextEager]_vars

\* A user who walks from the job list to the build logs and back once the
\* screen has settled, and a server that may fail any fetch, have no jobs
\* or name a last build without listing builds
NextFetch ==
    \/ KeyJobs
    \/ KeyEnterJobList
    \/ KeyEnterJobDetail
    \/ KeyBack
    \/ KeyOther("down")
    \/ RunConnect
    \/ RunFetchJobs
    \/ RunFetchJobsEmpty
    \/ FailFetchJobs
    \/ \E c \in BagToSet(cmds) : RunFetchJobDetail(c)
    \/ \E c \in BagToSet(cmds) : RunFetchJobDetailLastOnly(c)
    \/ \E c \in BagToSet(cmds) : FailFetchJobDetail(c)
    \/ \E c \in BagToSet(cmds) : RunFetchBuildDetail(c)
    \/ \E c \in BagToSet(cmds) : FailFetchBuildDetail(c)
    \/ \E c \in BagToSet(cmds) : RunFetchBuildLog(c)
    \/ \E c \in BagToSet(cmds) : FailFetchBuildLog(c)
    \/ ProcessConnect
    \/ ProcessFetchJobs
    \/ ProcessFetchJobDetail
    \/ ProcessFetchBuildDetail
    \/ ProcessFetchBuildLog

SpecFetch == Init /\ [][NextFetch]_vars

\* A user who resizes the terminal between walks through all five views once
\* the screen has settled; the server answers every request
NextResize ==
    \/ \E size \in Sizes : Resize(size[1], size[2])
    \/ KeyHelp
    \/ KeyDashboard
    \/ KeyJobs
    \/ KeyEnterJobList
    \/ KeyEnterJobDetail
    \/ KeyBack
    \/ RunConnect
    \/ RunFetchJobs
    \/ \E c \in BagToSet(cmds) : RunFetchJobDetail(c)
    \/ \E c \in BagToSet(cmds) : RunFetchBuildDetail(c)
    \/ \E c \in BagToSet(cmds) : RunFetchBuildLog(c)
    \/ ProcessConnect
    \/ ProcessFetchJobs
    \/ ProcessFetchJobDetail
    \/ ProcessFetchBuildDetail
    \/ ProcessFetchBuildLog

SpecResize == Init /\ [][NextResize]_vars

\* A user who moves between the dashboard, the job list and the help while
\* results are still on their way, and then quits; the server answers every
\* request
NextQuit ==
    \/ KeyQuit
    \/ KeyHelp
    \/ KeyDashboard
    \/ KeyJobs
    \/ KeyBack
    \/ RunConnect
    \/ RunFetchJobs
    \/ RunQuit
    \/ ProcessConnect
    \/ ProcessFetchJobs
    \/ ProcessQuit

SpecQuit == InitEager /\ [][NextQuit]_vars

\* A user who watches the dashboard while the first tick reconnects to a
\* server with any nodes, or whose node listing fails
NextNodes ==
    \/ RunConnectAnyNodes
    \/ RunConnectNoNodes
    \/ RunFetchJobs
    \/ \E c \in BagToSet(cmds) : RunRefreshTick(c)
    \/ AdvanceOnce
    \/ ProcessConnect
    \/ ProcessFetchJobs
    \/ ProcessRefreshTick

SpecNodes == Init /\ [][NextNodes]_vars

\* A user who opens and refetches the job list once the screen has settled,
\* and a server whose jobs have any color
NextColors ==
    \/ KeyJobs
    \/ RunConnect
    \/ RunFetchJobsColored
    \/ ProcessConnect
    \/ ProcessFetchJobs

SpecColors == Init /\ [][NextColors]_vars

\* A user who opens jobs from the job list once the screen has settled, and
\* a server whose builds may have any result and may be running
NextStatus ==
    \/ KeyJobs
    \/ KeyEnterJobList
    \/ KeyBack
    \/ RunConnect
    \/ RunFetchJobs
    \/ \E c \in BagToSet(cmds) : RunFetchJobDetail(c)
    \/ \E c \in BagToSet(cmds) : RunFetchBuildDetailAny(c)
    \/ ProcessConnect
    \/ ProcessFetchJobs
    \/ ProcessFetchJobDetail
    \/ ProcessFetchBuildDetail

SpecStatus == Init /\ [][NextStatus]_vars

\* The BuildLog view on its own: it is given console texts and resized, from
\* the start of the program on
NextLog ==
    \/ \E text \in LogTexts : ShowLog(text)
    \/ \E size \in Sizes : Resize(size[1], size[2])

SpecLog == InitEager /\ [][NextLog]_vars

\* The service on its own: a caller connects, with any outcome, and calls
\* the guarded operations, while the clock moves one tick
NextService ==
    \/ CallConnect
    \/ CallConnectNoNodes
    \/ CallConnectFails
    \/ \E op \in ServiceOps : CallService(op)
    \/ \E op \in ServiceOps : FailService(op)
    \/ AdvanceOnce

SpecService == Init /\ [][NextService]_vars

(***************************************************************************)
(* Properties                                                              *)
(***************************************************************************)
\* a step in which Update handles the key k
KeyStep(k) == msgs' = msgs /\ now' = now /\ last'.msg = KeyMsg(k)

\* a step in which Update handles the queued message of the given type
ResultStep(type) == msgs # <<>> /\ msgs' = Tail(msgs) /\ Head(msgs).type = type

\* the free nodes of a server's node list
FreeNodesOf(nodes) ==
    Cardinality({i \in DOMAIN nodes : nodes[i].Online /\ nodes[i].Idle})

C3_RefreshKey == last.msg = KeyMsg("r") => last.cmds = <<ConnectCmd>>

\* C4: the jobs key (j) shows the job list from every view, the job list
\* included, and issues exactly one job-list fetch when connected and no
\* command when not
C4_JobsKey ==
    last.msg = KeyMsg("j") =>
        /\ currentView = JobListView
        /\ connected => last.cmds = <<FetchJobsCmd>>
        /\ ~connected => last.cmds = <<>>

\* j was pressed in the job list after the connection was lost
C4_JobsKey_Witness ==
    /\ last.msg = KeyMsg("j")
    /\ last.view = JobListView
    /\ ~connected
    /\ jobList.list.items # <<>>
    /\ last.cmds = <<>>

\* C5: enter in the job list, when GetSelected returns a job, records its
\* name as the selected job, shows JobDetail and fetches that job's detail
\* exactly when connected; when GetSelected returns none (an empty list, a
\* filter without a match) the view and the selected job stay and no command
\* is issued
C5_EnterJobList ==
    [][(KeyStep("enter") /\ currentView = JobListView) =>
          IF GetSelected(jobList) # <<>>
          THEN LET job == GetSelected(jobList)[1] IN
               /\ selectedJob' = job.Name
               /\ currentView' = JobDetailView
               /\ cmds' = cmds (+) (IF connected
                                    THEN SetToBag({FetchJobDetailCmd(job.Name)})
                                    ELSE EmptyBag)
          ELSE /\ currentView' = currentView
               /\ selectedJob' = selectedJob
               /\ cmds' = cmds]_vars

\* enter opened the one job the filter had left of a longer list, after
\* the connection was lost
C5_EnterJobList_Witness ==
    /\ last.msg = KeyMsg("enter")
    /\ last.view = JobListView
    /\ currentView = JobDetailView
    /\ ~connected
    /\ last.cmds = <<>>
    /\ jobList.list.filterState = Filtering
    /\ Len(VisibleItems(jobList.list)) < Len(jobList.list.items)
    /\ selectedJob = VisibleItems(jobList.list)[1].Name

\* C6: enter in a job's detail, with a build selected, records its number
\* as the selected build, shows BuildLog and, if connected, issues exactly
\* one build-log fetch for the selected job and that number; the command
\* fetches the log of the pair it was issued with, wherever the user has
\* gone by the time it runs
C6_EnterJobDetail ==
    [][/\ (KeyStep("enter") /\ currentView = JobDetailView
                            /\ GetSelectedBuild(jobDetail) # <<>>) =>
             LET build == GetSelectedBuild(jobDetail)[1] IN
             /\ selectedBuild' = build.Number
             /\ currentView' = BuildLogView
             /\ connected =>
                   cmds' = cmds (+) SetToBag({FetchBuildLogCmd(selectedJob, build.Number)})
             /\ ~connected => cmds' = cmds
       /\ \A c \in BagToSet(cmds) :
             (c.type = "FetchBuildLog" /\ cmds' = cmds (-) SetToBag({c})) =>
                 /\ Len(msgs') = Len(msgs) + 1
                 /\ msgs'[Len(msgs')].type = "fetchBuildLogMsg"
                 /\ msgs'[Len(msgs')].err = NoError =>
                       msgs'[Len(msgs')].buildLog = LogOf(c.job, c.build)]_vars

\* the log of one job's build arrives after the user has gone back and
\* opened another job
C6_EnterJobDetail_Witness ==
    /\ msgs # <<>>
    /\ Head(msgs).type = "fetchBuildLogMsg"
    /\ Head(msgs).err = NoError
    /\ Head(msgs).buildLog[1][2] # selectedJob
    /\ currentView = JobDetailView

\* C7: in every view a successful connectMsg sets connected, replaces the
\* dashboard's server information by the result's, Connected included, and
\* issues exactly one job-list fetch
C7_ConnectOk ==
    (last.msg.type = "connectMsg" /\ last.msg.err = NoError) =>
        LET info == last.msg.serverInfo IN
        /\ connected
        /\ dashboard.serverInfo =
              [URL |-> info.URL, Version |-> info.Version, Connected |-> TRUE,
               Mode |-> info.Mode, Uptime |-> info.Uptime,
               TotalNodes |-> Len(info.Nodes), FreeNodes |-> FreeNodesOf(info.Nodes)]
        /\ last.cmds = <<FetchJobsCmd>>

\* a refresh connected again while a build log was on screen
C7_ConnectOk_Witness ==
    /\ last.msg.type = "connectMsg"
    /\ last.msg.err = NoError
    /\ last.view = BuildLogView
    /\ dashboard.serverInfo.TotalNodes > dashboard.serverInfo.FreeNodes
    /\ dashboard.serverInfo.FreeNodes > 0

\* some message Update handles is taken from the queue
Handles ==
    \/ ProcessConnect \/ ProcessFetchJobs \/ ProcessFetchJobDetail
    \/ ProcessFetchBuildDetail \/ ProcessFetchBuildLog \/ ProcessRefreshTick

\* C8: in every view a failed connectMsg clears connected, sets a non-empty
\* error message and issues no command; the program keeps running and the
\* next queued message is handled
C8_ConnectFailed ==
    (last.msg.type = "connectMsg" /\ last.msg.err # NoError) =>
        /\ ~connected
        /\ errorMsg # ""
        /\ last.cmds = <<>>
        /\ Running
        /\ msgs # <<>> => ENABLED Handles

\* a refresh failed while a job's detail was on screen and its fetch
\* was still waiting in the queue
C8_ConnectFailed_Witness ==
    /\ last.msg.type = "connectMsg"
    /\ last.msg.err # NoError
    /\ last.view = JobDetailView
    /\ msgs # <<>>

\* C9: the dashboard's server information says Connected only while the
\* model is connected
C9_Snapshot == dashboard.serverInfo.Connected => connected

\* C10: a RefreshTickMsg always schedules exactly one tick 30 seconds
\* later, and issues a connect exactly when ShouldRefresh holds
C10_Tick ==
    [][ResultStep("RefreshTickMsg") =>
          cmds' = cmds (+) SetToBag({RefreshTickCmd(now + 30)})
                       (+) (IF ShouldRefresh(service, config.RefreshInterval, now)
                            THEN SetToBag({ConnectCmd}) ELSE EmptyBag)]_vars

\* a tick was handled over a job's detail right after a connect: it
\* scheduled the next tick and nothing else
C10_Tick_Witness ==
    /\ last.msg.type = "RefreshTickMsg"
    /\ last.view = JobDetailView
    /\ connected
    /\ last.cmds = <<RefreshTickCmd(2 * TickPeriod)>>

\* C11: a fetchJobsMsg does one of two things: on success the job list's
\* items become the result's jobs, in order and in number (none for an
\* empty result), and the error message stays; on failure the error message
\* is set and the job list stays
C11_JobsResult ==
    [][ResultStep("fetchJobsMsg") =>
          LET msg == Head(msgs) IN
          IF msg.err = NoError
          THEN /\ Len(jobList'.list.items) = Len(msg.jobs)
               /\ \A i \in DOMAIN msg.jobs :
                     /\ jobList'.list.items[i].Name = msg.jobs[i].Name
                     /\ jobList'.list.items[i].Status = msg.jobs[i].Status
               /\ errorMsg' = errorMsg
          ELSE /\ errorMsg' = "Failed to fetch jobs: %v"
               /\ jobList' = jobList]_vars

\* an empty result emptied a list from which a job had been opened
C11_JobsResult_Witness ==
    /\ last.msg.type = "fetchJobsMsg"
    /\ last.msg.err = NoError
    /\ last.msg.jobs = <<>>
    /\ jobList.list.items = <<>>
    /\ selectedJob # NoJob

\* the JobDetail view-state shows the name, description and URL of a result
ShowsDetail(j, detail) ==
    /\ j.jobName = detail.Name
    /\ j.description = detail.Description
    /\ j.jobURL = detail.URL

\* C12, as stated: a successful fetchJobDetailMsg fills the JobDetail
\* view-state with the result's name, description and URL and, whenever the
\* result has a last build, issues exactly one build-detail fetch for the
\* result's job and that build; a failed one issues no command
C12_JobDetailResult_AsStated ==
    [][ResultStep("fetchJobDetailMsg") =>
          LET msg == Head(msgs) IN
          IF msg.err = NoError
          THEN /\ ShowsDetail(jobDetail', msg.jobDetail)
               /\ msg.jobDetail.LastBuild # <<>> =>
                     cmds' = cmds (+) SetToBag({FetchBuildDetailCmd(
                                 msg.jobDetail.Name, msg.jobDetail.LastBuild[1])})
          ELSE cmds' = cmds]_vars

\* C12, amended: the build-detail fetch is issued exactly when the result
\* has a last build and lists at least one build
C12_JobDetailResult ==
    [][ResultStep("fetchJobDetailMsg") =>
          LET msg == Head(msgs) IN
          IF msg.err = NoError
          THEN /\ ShowsDetail(jobDetail', msg.jobDetail)
               /\ cmds' = cmds (+)
                     (IF msg.jobDetail.LastBuild # <<>> /\ Len(msg.jobDetail.Builds) > 0
                      THEN SetToBag({FetchBuildDetailCmd(
                                 msg.jobDetail.Name, msg.jobDetail.LastBuild[1])})
                      ELSE EmptyBag)
          ELSE cmds' = cmds]_vars

\* a result with a last build and no builds listed was shown, and no
\* build-detail fetch followed
C12_JobDetailResult_Witness ==
    /\ last.msg.type = "fetchJobDetailMsg"
    /\ last.msg.err = NoError
    /\ last.msg.jobDetail.LastBuild # <<>>
    /\ last.msg.jobDetail.Builds = <<>>
    /\ ShowsDetail(jobDetail, last.msg.jobDetail)
    /\ last.cmds = <<>>

\* C13: the job name and build number the BuildLog view holds are those of
\* the request that produced the log text it holds
C13_LogTag ==
    buildLog.log # NoLog => buildLog.log = LogOf(buildLog.jobName, buildLog.buildNum)

\* C14: every successful build-log result is applied when it is processed, so
\* with two log fetches in flight the text shown after both is that of the
\* result that arrived second, whichever request it answers
C14_LastLogWins ==
    (last.msg.type = "fetchBuildLogMsg" /\ last.msg.err = NoError)
        => buildLog.log = last.msg.buildLog

\* two log results were in flight together: the one that answers the latest
\* request (the selected pair) has been applied, and the result of the earlier
\* request is queued behind it
C14_LastLogWins_Witness ==
    /\ last.msg.type = "fetchBuildLogMsg"
    /\ last.msg.err = NoError
    /\ last.msg.buildLog = LogOf(selectedJob, selectedBuild)
    /\ buildLog.log = last.msg.buildLog
    /\ Len(msgs) = 1
    /\ msgs[1].type = "fetchBuildLogMsg"
    /\ msgs[1].err = NoError
    /\ msgs[1].buildLog # last.msg.buildLog

\* the text each kind of result stores in the error message when it fails
ErrorTextOf ==
    [connectMsg          |-> "Connection error: %v",
     fetchJobsMsg        |-> "Failed to fetch jobs: %v",
     fetchJobDetailMsg   |-> "Failed to fetch job details: %v",
     fetchBuildDetailMsg |-> "Failed to fetch build details: %v",
     fetchBuildLogMsg    |-> "Failed to fetch build log: %v"]

\* C15: after a successful result of some kind has been processed, the error
\* message is no longer the error of a failed operation of that kind
C15_ErrorCleared ==
    \A type \in DOMAIN ErrorTextOf :
        (last.msg.type = type /\ last.msg.err = NoError) => errorMsg # ErrorTextOf[type]

\* the four kinds of fetch result
FetchResults == {"fetchJobsMsg", "fetchJobDetailMsg", "fetchBuildDetailMsg", "fetchBuildLogMsg"}

\* C16: a failed job-list, job-detail, build-detail or build-log result sets
\* the error message and leaves the job list, the JobDetail view, the log and
\* its tag, the current view, the selection and the connected flag as they were
C16_FailedFetchFrame ==
    [][\A type \in FetchResults :
          (ResultStep(type) /\ Head(msgs).err # NoError)
              => /\ errorMsg' = ErrorTextOf[type]
                 /\ UNCHANGED <<jobList, jobDetail, buildLog, currentView, selectedJob,
                                selectedBuild, connected>>
                 /\ cmds' = cmds]_vars

\* a job-detail fetch has just failed while the JobDetail view showed a job
\* with builds and a log was held
C16_FailedFetchFrame_Witness ==
    /\ last.msg.type = "fetchJobDetailMsg"
    /\ last.msg.err # NoError
    /\ errorMsg = ErrorTextOf["fetchJobDetailMsg"]
    /\ jobDetail.jobName # ""
    /\ jobDetail.buildList.items # <<>>
    /\ jobDetail.lastBuild # <<>>
    /\ buildLog.log # NoLog
    /\ jobList.list.items # <<>>

\* C17: a resize to (w, h) stores (w, h) in the model and in all five view
\* components whichever view is active, so every component always holds the
\* model's dimensions and the log viewport fits them
C17_Dimensions ==
    /\ last.msg.type = "WindowSizeMsg"
          => (width = last.msg.Width /\ height = last.msg.Height)
    /\ dashboard.width = width /\ dashboard.height = height
    /\ jobList.width = width /\ jobList.height = height
    /\ jobDetail.width = width /\ jobDetail.height = height
    /\ buildLog.width = width /\ buildLog.height = height
    /\ helpView.width = width /\ helpView.height = height
    /\ buildLog.ready => (buildLog.vpWidth = width - 4 /\ buildLog.vpHeight = height - 10)

\* the terminal has just been resized a second time in the JobDetail view,
\* before any log was ever shown
C17_Dimensions_Witness ==
    /\ last.msg = WindowSizeMsg(100, 30)
    /\ last.view = JobDetailView
    /\ buildLog.log = NoLog
    /\ buildLog.ready
    /\ buildLog.width = 100 /\ buildLog.height = 30
    /\ helpView.width = 100 /\ dashboard.height = 30

\* C18: once q has been handled, no further event is processed: the last
\* message Update handled stays the quit key until the program ends and after
C18_QuitStops ==
    (QuitPending \/ quit) => last.msg = KeyMsg("q")

\* C19: in the JobList, JobDetail and BuildLog views the cursor keys (down,
\* j, up) neither change the current view nor issue a fetch
C19_CursorKeys ==
    (/\ last.msg \in {KeyMsg("down"), KeyMsg("j"), KeyMsg("up")}
     /\ last.view \in {JobListView, JobDetailView, BuildLogView})
        => (currentView = last.view /\ last.cmds = <<>>)

\* C20: b in the JobDetail view issues a TriggerBuild call for the selected job
C20_TriggerBuild ==
    (last.msg = KeyMsg("b") /\ last.view = JobDetailView)
        => \E i \in DOMAIN last.cmds :
              last.cmds[i].type = "TriggerBuild" /\ last.cmds[i].job = selectedJob

\* C21: esc pressed in the JobList view reaches the list, so the list is not
\* left in filter-entry state, and the view stays JobList
C21_EscCancelsFilter ==
    (last.msg = KeyMsg("esc") /\ last.view = JobListView)
        => (jobList.list.filterState # Filtering /\ currentView = JobListView)

\* pattern occurs in text as a substring
Occurs(pattern, text) ==
    \E i \in 0..(Len(text) - Len(pattern)) :
        SubSeq(text, i + 1, i + Len(pattern)) = pattern

\* the jobs of the list whose name contains the filter text
NamesWith(l) == {i \in DOMAIN l.items : Occurs(l.filterValue, FilterValue(l.items[i]))}

\* the matches of the text in the filter input of the job list have arrived
FilterSettled ==
    /\ currentView = JobListView
    /\ jobList.list.filterState = Filtering
    /\ jobList.list.filterValue # <<>>
    /\ last.msg.type = "FilterMatchesMsg"
    /\ \A c \in BagToSet(cmds) : c.type # "filterItems"
    /\ \A i \in DOMAIN msgs : msgs[i].type # "FilterMatchesMsg"

\* C22: once the job list is filtered to a text that occurs in exactly one
\* job name, that job is the only visible item and GetSelected returns it;
\* filtered to a text that occurs in no job name, GetSelected returns none
C22_SubstringFilter ==
    FilterSettled =>
        LET l == jobList.list IN
        /\ \A i \in DOMAIN l.items :
              NamesWith(l) = {i}
                  => (VisibleItems(l) = <<l.items[i]>> /\ GetSelected(jobList) = <<l.items[i]>>)
        /\ NamesWith(l) = {} => GetSelected(jobList) = <<>>

\* a step in which the service operation op is called
ServiceStep(op) == last'.msg.type = op /\ last' # last

\* C23: called while the service is not connected, each guarded operation
\* returns the not-connected error, makes no call to the server client and
\* leaves the service as it was
C23_DisconnectedGuard ==
    [][\A op \in ServiceOps :
          (ServiceStep(op) /\ ~service.connected)
              => /\ last'.msg.err = ErrNotConnected
                 /\ last'.cmds = <<>>
                 /\ service' = service]_vars

\* TriggerBuild has just been refused after a connect that succeeded was
\* followed by one that failed
C23_DisconnectedGuard_Witness ==
    /\ last.msg = [type |-> "TriggerBuild", err |-> ErrNotConnected]
    /\ last.cmds = <<>>
    /\ ~service.connected
    /\ service.lastRefresh.set
    /\ service.lastError = ErrRequest

\* the class the priority error > warning > command-echo > success > plain
\* gives a line
ClassOf(line) ==
    LET error == \E p \in {"error", "exception", "failed"} : Contains(line, p)
        warning == Contains(line, "warning")
        command == HasPrefix(line, "+") \/ HasPrefix(line, ">")
        success == \E p \in {"success", "passed", "completed"} : Contains(line, p)
    IN CASE error -> "error"
         [] ~error /\ warning -> "warning"
         [] ~error /\ ~warning /\ command -> "command"
         [] ~error /\ ~warning /\ ~command /\ success -> "success"
         [] OTHER -> "plain"

\* C24: the viewport shows every line of the stored log, unchanged and in
\* order, each in the one class the priority error > warning > command-echo
\* > success > plain gives it; a line with both an error and a success word
\* is shown as error
C24_LineClass ==
    (buildLog.ready /\ buildLog.log # NoLog)
        => /\ DOMAIN buildLog.content = DOMAIN buildLog.log
           /\ \A i \in DOMAIN buildLog.log :
                 /\ buildLog.content[i].line = buildLog.log[i]
                 /\ buildLog.content[i].style = ClassOf(buildLog.log[i])
                 /\ (Contains(buildLog.log[i], "error") /\ Contains(buildLog.log[i], "success"))
                       => buildLog.content[i].style = "error"

\* the view shows a line that reports both a success and an error
C24_LineClass_Witness ==
    /\ buildLog.ready
    /\ buildLog.log = << <<"SUCCESS", "ERROR">> >>
    /\ buildLog.content = <<[style |-> "error", line |-> <<"SUCCESS", "ERROR">>]>>

\* the status table of build results
StatusTable ==
    [SUCCESS |-> "success", FAILURE |-> "failed", ABORTED |-> "aborted",
     UNSTABLE |-> "failed", NOT_BUILT |-> "waiting"]

\* C25: the status in the last-build panel after a build-detail result is
\* running when the build is building, else the table's status of its
\* result, else unknown
C25_BuildStatus ==
    (last.msg.type = "fetchBuildDetailMsg" /\ last.msg.err = NoError)
        => LET detail == last.msg.buildDetail IN
           /\ jobDetail.lastBuild # <<>>
           /\ jobDetail.lastBuild[1].Number = detail.Number
           /\ jobDetail.lastBuild[1].Status =
                 IF detail.Building THEN "running"
                 ELSE IF detail.Result \in DOMAIN StatusTable THEN StatusTable[detail.Result]
                 ELSE "unknown"

\* the panel shows a running build that already reports SUCCESS
C25_BuildStatus_Witness ==
    /\ last.msg.type = "fetchBuildDetailMsg"
    /\ last.msg.err = NoError
    /\ last.msg.buildDetail.Building
    /\ last.msg.buildDetail.Result = "SUCCESS"
    /\ jobDetail.lastBuild # <<>>
    /\ jobDetail.lastBuild[1].Status = "running"

\* the status table of job colors
ColorTable ==
    [blue |-> "success", blue_anime |-> "success", red |-> "failure", red_anime |-> "failure",
     yellow |-> "unstable", yellow_anime |-> "unstable", grey |-> "disabled",
     grey_anime |-> "disabled", disabled |-> "disabled", disabled_anime |-> "disabled",
     aborted |-> "aborted", aborted_anime |-> "aborted"]
AnimatedColors == {"blue_anime", "red_anime", "yellow_anime", "grey_anime", "disabled_anime",
                   "aborted_anime"}

\* C26: every job of a job-list result has the status the table gives its
\* color (unknown for a color not in the table), is in progress exactly
\* when its color is an animated color of the table, agrees with
\* GetStatusFromColor, and is listed with that status
C26_JobColor ==
    (last.msg.type = "fetchJobsMsg" /\ last.msg.err = NoError)
        => /\ Len(jobList.list.items) = Len(last.msg.jobs)
           /\ \A i \in DOMAIN last.msg.jobs :
                 LET job == last.msg.jobs[i] IN
                 /\ job.Status = IF job.Color \in DOMAIN ColorTable THEN ColorTable[job.Color]
                                 ELSE "unknown"
                 /\ job.InProgress = (job.Color \in AnimatedColors)
                 /\ GetStatusFromColor(job.Color) =
                       [status |-> job.Status, inProgress |-> job.InProgress]
                 /\ jobList.list.items[i].Status = job.Status

\* the list shows an unstable job and one with a color the client does not know
C26_JobColor_Witness ==
    /\ last.msg.type = "fetchJobsMsg"
    /\ last.msg.err = NoError
    /\ Len(last.msg.jobs) = 2
    /\ last.msg.jobs[1].Color = "yellow_anime"
    /\ last.msg.jobs[1].InProgress
    /\ last.msg.jobs[2].Color = "notbuilt_anime"
    /\ ~last.msg.jobs[2].InProgress
    /\ jobList.list.items[1].Status = "unstable"
    /\ jobList.list.items[2].Status = "unknown"

\* C27: the dashboard's free nodes never exceed its total nodes; after a
\* successful connect result the total is the number of nodes of the result
\* and the free ones are those both online and idle
C27_FreeNodes ==
    /\ 0 <= dashboard.serverInfo.FreeNodes
    /\ dashboard.serverInfo.FreeNodes <= dashboard.serverInfo.TotalNodes
    /\ (last.msg.type = "connectMsg" /\ last.msg.err = NoError)
          => LET nodes == last.msg.serverInfo.Nodes IN
             /\ dashboard.serverInfo.TotalNodes = Len(nodes)
             /\ dashboard.serverInfo.FreeNodes =
                   Cardinality({i \in DOMAIN nodes : nodes[i].Online /\ nodes[i].Idle})

\* the dashboard shows 2 free of 3 nodes, the third being online and busy,
\* after a reconnect
C27_FreeNodes_Witness ==
    /\ last.msg.type = "connectMsg"
    /\ last.msg.err = NoError
    /\ now > 0
    /\ Len(last.msg.serverInfo.Nodes) = 3
    /\ \E i \in 1..3 : last.msg.serverInfo.Nodes[i] = Node(TRUE, FALSE)
    /\ dashboard.serverInfo.TotalNodes = 3
    /\ dashboard.serverInfo.FreeNodes = 2


(***************************************************************************)
(* The client's critical section: a command's goroutine enters a client    *)
(* method, holds the mutex until the method returns, and only then hands   *)
(* its result to the event loop                                            *)
(***************************************************************************)
ClientCall(c, method) == [cmd |-> c, method |-> method]
\* the client method a command's service call ends in
MethodOf(c) ==
    CASE c.type = "Connect" -> "GetServerInfo"
      [] c.type = "FetchJobs" -> "GetJobs"
      [] c.type = "FetchJobDetail" -> "GetJobDetails"
      [] c.type = "FetchBuildDetail" -> "GetBuildDetails"
      [] c.type = "FetchBuildLog" -> "GetBuildLog"
\* the calls of command c that are inside a client method
InsideOf(c, client) ==
    CopiesIn(ClientCall(c, MethodOf(c)), client.inside)
    + (IF c = ConnectCmd
       THEN CopiesIn(ClientCall(c, "GetNodes"), client.inside) + client.nodesDue
       ELSE 0)
\* c.mutex.Lock() returns once no other call holds the mutex
MutexLockNever(client) == TRUE
MutexLock(client) == client.inside = EmptyBag
\* c.mutex.Lock() of client.GetNodes
GetNodesLock(client) == client.inside = EmptyBag
Enter(svc, call) == [svc EXCEPT !.client.inside = @ (+) SetToBag({call})]
\* defer c.mutex.Unlock()
Leave(svc, call) == [svc EXCEPT !.client.inside = @ (-) SetToBag({call})]

\* a command's goroutine passes the service's guard and enters its client
\* method
BeginClientCall(c) ==
    /\ Running
    /\ c.type \in {"Connect", "FetchJobs", "FetchJobDetail", "FetchBuildDetail", "FetchBuildLog"}
    /\ CopiesIn(c, cmds) > InsideOf(c, service.client)
    /\ c.type # "Connect" => service.connected
    /\ MutexLock(service.client)
    /\ service' = Enter(service, ClientCall(c, MethodOf(c)))
    /\ UNCHANGED <<model, env, now, cmds, msgs, quit, panicked, last>>

\* what the server answers to a fetch
ClientAnswers(c) ==
    CASE c.type = "FetchJobs" -> {fetchJobsMsg(jobs, NoError) : jobs \in JobLists}
      [] c.type = "FetchJobDetail" ->
            {fetchJobDetailMsg(detail, NoError) : detail \in JobDetailsOf(c.job)}
      [] c.type = "FetchBuildDetail" ->
            {fetchBuildDetailMsg(detail, NoError) : detail \in BuildDetailsOf(c.job, c.build)}
      [] c.type = "FetchBuildLog" -> {fetchBuildLogMsg(LogOf(c.job, c.build), NoError)}

\* a fetch's client method returns: the mutex is released and the command
\* returns its message
EndFetch(c) ==
    /\ Running
    /\ c.type \in {"FetchJobs", "FetchJobDetail", "FetchBuildDetail", "FetchBuildLog"}
    /\ BagIn(ClientCall(c, MethodOf(c)), service.client.inside)
    /\ service' = Leave(service, ClientCall(c, MethodOf(c)))
    /\ \E msg \in ClientAnswers(c) : Deliver(c, msg)

\* JenkinsService.Connect: client.GetServerInfo returns
EndGetServerInfo ==
    /\ Running
    /\ BagIn(ClientCall(ConnectCmd, "GetServerInfo"), service.client.inside)
    /\ service' = [Leave(service, ClientCall(ConnectCmd, "GetServerInfo"))
                     EXCEPT !.client.nodesDue = @ + 1]
    /\ UNCHANGED <<model, env, now, cmds, msgs, quit, panicked, last>>

\* JenkinsService.Connect: client.GetNodes is entered
BeginGetNodes ==
    /\ Running
    /\ service.client.nodesDue > 0
    /\ GetNodesLock(service.client)
    /\ service' = [Enter(service, ClientCall(ConnectCmd, "GetNodes"))
                     EXCEPT !.client.nodesDue = @ - 1]
    /\ UNCHANGED <<model, env, now, cmds, msgs, quit, panicked, last>>

\* JenkinsService.Connect: client.GetNodes returns, the service records the
\* connection and the command returns its connectMsg
EndGetNodes ==
    /\ Running
    /\ BagIn(ClientCall(ConnectCmd, "GetNodes"), service.client.inside)
    /\ \E info \in ServerInfos, nodes \in NodeLists :
          /\ service' = ConnectOk(Leave(service, ClientCall(ConnectCmd, "GetNodes")),
                                  info, <<nodes>>, now)
          /\ Deliver(ConnectCmd, connectMsg(NoError, service'.serverInfo))

\* An eager user moves between the job list and a job while the periodic
\* refresh reconnects; every command is followed through its client calls
NextClient ==
    \/ KeyJobs
    \/ KeyEnterJobList
    \/ AdvanceOnce
    \/ \E c \in BagToSet(cmds) : RunRefreshTick(c)
    \/ \E c \in BagToSet(cmds) : BeginClientCall(c)
    \/ \E c \in BagToSet(cmds) : EndFetch(c)
    \/ EndGetServerInfo
    \/ BeginGetNodes
    \/ EndGetNodes
    \/ ProcessConnect
    \/ ProcessRefreshTick
    \/ ProcessFetchJobs
    \/ ProcessFetchJobDetail
    \/ ProcessFetchBuildDetail

SpecClient == InitEager /\ [][NextClient]_vars

\* C28: at most one call is inside the server client at any time: the
\* commands the controller has running take turns in the client's methods
C28_OneCallInClient == BagCardinality(service.client.inside) <= 1

\* one fetch is inside a client method while a different fetch waits for the
\* mutex
C28_OneCallInClient_Witness ==
    /\ BagCardinality(service.client.inside) = 1
    /\ \A call \in BagToSet(service.client.inside) : call.cmd.type # "Connect"
    /\ \E c \in BagToSet(cmds) :
          /\ c.type \in {"FetchJobs", "FetchJobDetail", "FetchBuildDetail"}
          /\ ClientCall(c, MethodOf(c)) \notin BagToSet(service.client.inside)
          /\ CopiesIn(c, cmds) > InsideOf(c, service.client)
          /\ c.type # "Connect" => service.connected


\* the service state the claim names: the connected flag, the server
\* snapshot, the last error and the last-refresh timestamp
SharedState(svc) == <<svc.connected, svc.serverInfo, svc.lastError, svc.lastRefresh>>

\* C29: a command running off the event loop hands its result over as a
\* message only: the step in which it returns, while a fetch that reads
\* the connected flag is still in flight, leaves the service's connected
\* flag, snapshot, last error and last-refresh timestamp as they were
C29_NoOffThreadWrites ==
    [][(/\ Len(msgs') > Len(msgs)
        /\ \E c \in BagToSet(cmds') :
              c.type \in {"FetchJobs", "FetchJobDetail", "FetchBuildDetail", "FetchBuildLog"})
       => SharedState(service') = SharedState(service)]_vars


(***************************************************************************)
(* Progress: the goroutine of every command is scheduled and its server    *)
(* call returns (the HTTP client gives up after its timeout), and the      *)
(* event loop takes every message of its queue                             *)
(***************************************************************************)
\* the goroutine of command c returns its message
Finish(c) ==
    \/ c = ConnectCmd /\ (RunConnect \/ FailConnect)
    \/ c = FetchJobsCmd /\ RunFetchJobs
    \/ RunFetchJobDetail(c)
    \/ RunFetchBuildDetail(c)

\* Model.Update takes the next message
Handle ==
    \/ ProcessConnect
    \/ ProcessFetchJobs
    \/ ProcessFetchJobDetail
    \/ ProcessFetchBuildDetail

\* the connect and fetch commands the controller can issue for the server's
\* jobs and builds
LiveCmds ==
    {ConnectCmd, FetchJobsCmd}
        \cup { FetchJobDetailCmd(n) : n \in JobNames }
        \cup UNION { { FetchBuildDetailCmd(n, d.LastBuild[1]) :
                          d \in {x \in JobDetailsOf(n) : x.LastBuild # <<>>} } : n \in JobNames }

\* An eager user moves between the job list and a job; the server answers
\* every fetch, and answers or fails the connection request
NextLive ==
    \/ KeyJobs
    \/ KeyEnterJobList
    \/ \E c \in BagToSet(cmds) : Finish(c)
    \/ Handle

SpecLive ==
    /\ InitEager
    /\ [][NextLive]_vars
    /\ \A c \in LiveCmds : WF_vars(Finish(c))
    /\ WF_vars(Handle)

\* the message type a command returns
ResultType(c) ==
    CASE c.type = "Connect" -> "connectMsg"
      [] c.type = "FetchJobs" -> "fetchJobsMsg"
      [] c.type = "FetchJobDetail" -> "fetchJobDetailMsg"
      [] c.type = "FetchBuildDetail" -> "fetchBuildDetailMsg"
      [] c.type = "FetchBuildLog" -> "fetchBuildLogMsg"
      [] OTHER -> ""
\* the number of connect and fetch commands running
LiveRunning ==
    LET RECURSIVE Sum(_)
        Sum(S) == IF S = {} THEN 0
                  ELSE LET c == CHOOSE x \in S : TRUE IN CopiesIn(c, cmds) + Sum(S \ {c})
    IN Sum(LiveCmds)
\* Update has just taken a result of the type command c returns
Handled(c) == last.msg.type = ResultType(c)

Intervals == {-1, 0, ShortRefreshInterval, ConfigRefreshInterval, 45}

\* a user who only watches, with any configured interval
InitRefresh ==
    /\ Start
    /\ config \in {[RefreshInterval |-> i] : i \in Intervals}
    /\ overlap = 0
    /\ typing = MaxFilterLen

\* the clock runs for MaxRefreshTicks tick periods
AdvanceRefresh == AdvanceTo(MaxRefreshTicks * TickPeriod)

\* The dashboard is left alone while the timer ticks; the server answers or
\* fails the connection requests
NextRefresh ==
    \/ AdvanceRefresh
    \/ \E c \in BagToSet(cmds) : RunRefreshTick(c)
    \/ RunConnect
    \/ FailConnect
    \/ RunFetchJobs
    \/ ProcessConnect
    \/ ProcessFetchJobs
    \/ ProcessRefreshTick

SpecRefresh == InitRefresh /\ [][NextRefresh]_vars

\* the seconds since the last successful connect exceed `seconds`; before
\* the first successful connect they exceed any interval
ElapsedExceeds(seconds) ==
    ~service.lastRefresh.set \/ now - service.lastRefresh.at > seconds

\* C31 as claimed: a tick reconnects exactly when the time since the last
\* successful connect exceeds the configured interval, an interval of zero
\* or less counting as one second
C31_RefreshFloorOne ==
    [][ResultStep("RefreshTickMsg") =>
          ((\E i \in DOMAIN last'.cmds : last'.cmds[i] = ConnectCmd)
              <=> ElapsedExceeds(IF config.RefreshInterval <= 0 THEN 1
                                 ELSE config.RefreshInterval))]_vars

\* C31: a tick reconnects exactly when the time since the last successful
\* connect exceeds the configured interval, an interval of zero or less
\* counting as 30 seconds
C31_RefreshInterval ==
    [][ResultStep("RefreshTickMsg") =>
          ((\E i \in DOMAIN last'.cmds : last'.cmds[i] = ConnectCmd)
              <=> ElapsedExceeds(IF config.RefreshInterval <= 0 THEN 30
                                 ELSE config.RefreshInterval))]_vars

\* a tick 30 seconds after a successful connect, with an interval of zero
\* or less configured, has issued no connect
C31_RefreshInterval_Witness ==
    /\ last.msg.type = "RefreshTickMsg"
    /\ config.RefreshInterval <= 0
    /\ service.lastRefresh.set
    /\ now - service.lastRefresh.at = 30
    /\ \A i \in DOMAIN last.cmds : last.cmds[i] # ConnectCmd
    /\ ~BagIn(ConnectCmd, cmds)


(***************************************************************************)
(* Connecting to a server whose node listing may fail                      *)
(***************************************************************************)
\* JenkinsService.Connect is called directly and by the controller's
\* command; the node listing answers or fails, the liveness check may fail
\* when the service is called directly
NextConnect ==
    \/ CallConnect
    \/ CallConnectNoNodes
    \/ CallConnectFails
    \/ RunConnect
    \/ RunConnectNoNodes
    \/ RunFetchJobs
    \/ ProcessConnect
    \/ ProcessFetchJobs
    \/ AdvanceOnce

SpecConnect == InitEager /\ [][NextConnect]_vars

\* C32: a Connect whose liveness check succeeded returns no error, leaves
\* the service connected and timestamps the refresh, whether the node
\* listing succeeded or not; when the listing failed the snapshot stored
\* has no nodes and the failure is kept in lastError only: the controller
\* handles the result as a success and leaves its error message alone
C32_NodeFailureSwallowed ==
    [][/\ (ServiceStep("Connect") /\ Len(last'.cmds) = 2)
            => /\ last'.msg.err = NoError
               /\ service'.connected
               /\ service'.lastRefresh = [set |-> TRUE, at |-> now]
               /\ last'.cmds[2] = [client |-> "GetNodes", err |-> ErrNodes]
                     => /\ service'.serverInfo.Nodes = <<>>
                        /\ service'.lastError = ErrNodes
       /\ (ResultStep("connectMsg") /\ Head(msgs).err = NoError
              /\ Head(msgs).serverInfo.Nodes = <<>>)
            => /\ connected'
               /\ errorMsg' = errorMsg
               /\ dashboard'.serverInfo.Connected
               /\ dashboard'.serverInfo.TotalNodes = 0]_vars

\* the controller has handled a connect whose node listing failed: it is
\* connected, shows no error, and the service holds the node error
C32_NodeFailureSwallowed_Witness ==
    /\ last.msg.type = "connectMsg"
    /\ last.msg.err = NoError
    /\ last.msg.serverInfo.Nodes = <<>>
    /\ connected /\ errorMsg = ""
    /\ service.connected
    /\ service.lastError = ErrNodes
    /\ service.serverInfo.Nodes = <<>>


\* C33: once a successful job-detail result is processed, the JobDetail
\* view lists exactly the builds of that result, in the result's order: no
\* builds when the job has none, and no build of a job shown before
C33_BuildsReplaced ==
    (last.msg.type = "fetchJobDetailMsg" /\ last.msg.err = NoError) =>
        /\ jobDetail.jobName = last.msg.jobDetail.Name
        /\ jobDetail.buildList.items = BuildItems(last.msg.jobDetail.Builds)


\* C34: the last-build panel of the JobDetail view is a build of the job
\* whose name the view shows
C34_LastBuildOfShownJob ==
    jobDetail.lastBuild # <<>> =>
        \E d \in JobDetailsOf(jobDetail.jobName) :
            d.LastBuild = <<jobDetail.lastBuild[1].Number>>


\* C35: the build whose log enter fetches in the JobDetail view is a build
\* the server lists for the selected job
C35_LogOfListedBuild ==
    (last.msg = KeyMsg("enter") /\ last.view = JobDetailView) =>
        \A i \in DOMAIN last.cmds :
            last.cmds[i].type = "FetchBuildLog" =>
                \E d \in JobDetailsOf(last.cmds[i].job) :
                    \E b \in DOMAIN d.Builds : d.Builds[b] = last.cmds[i].build


(***************************************************************************)
(* A connect command in two steps: JenkinsService.Connect returns, having  *)
(* written the service, and later the command's goroutine hands its        *)
(* message to the event loop; another command may run in between           *)
(***************************************************************************)
\* a connect command whose service call has returned, with the message it
\* is about to send
ConnectReturnedCmd(msg) == Cmd("ConnectReturned", NoJob, 0, 0, <<msg>>)

\* m.service.Connect() returns nil
ReturnConnect ==
    /\ Running
    /\ BagIn(ConnectCmd, cmds)
    /\ \E info \in ServerInfos, nodes \in NodeLists :
          /\ service' = ConnectOk(service, info, <<nodes>>, now)
          /\ cmds' = (cmds (-) SetToBag({ConnectCmd}))
                       (+) SetToBag({ConnectReturnedCmd(connectMsg(NoError, service'.serverInfo))})
    /\ UNCHANGED <<model, env, now, msgs, quit, panicked, last>>

\* m.service.Connect() returns the error of client.GetServerInfo
ReturnConnectFails ==
    /\ Running
    /\ BagIn(ConnectCmd, cmds)
    /\ service' = ConnectFailed(service, ErrRequest)
    /\ cmds' = (cmds (-) SetToBag({ConnectCmd}))
                 (+) SetToBag({ConnectReturnedCmd(connectMsg(ErrRequest, NoServerInfo))})
    /\ UNCHANGED <<model, env, now, msgs, quit, panicked, last>>

\* the command returns its connectMsg
SendConnect(c) ==
    /\ Running
    /\ BagIn(c, cmds) /\ c.type = "ConnectReturned"
    /\ Deliver(c, c.items[1])
    /\ UNCHANGED service

\* The dashboard is left alone while the timer ticks and a slow server
\* answers or fails the connection requests
NextReorder ==
    \/ AdvanceOnce
    \/ \E c \in BagToSet(cmds) : RunRefreshTick(c)
    \/ ReturnConnect
    \/ ReturnConnectFails
    \/ \E c \in BagToSet(cmds) : SendConnect(c)
    \/ RunFetchJobs
    \/ ProcessConnect
    \/ ProcessFetchJobs
    \/ ProcessRefreshTick

SpecReorder == Init /\ [][NextReorder]_vars

\* C36: whenever no connect command is running and no connect result waits
\* in the queue, the controller's connected flag equals the service's
C36_ConnectedAgrees ==
    (/\ \A c \in BagToSet(cmds) : c.type \notin {"Connect", "ConnectReturned"}
     /\ \A i \in DOMAIN msgs : msgs[i].type # "connectMsg")
        => connected = service.connected


\* C37: with the default refresh interval every tick handled a tick period
\* or more after a successful connect issues a new connect
C37_EveryTickReconnects ==
    [][(/\ ResultStep("RefreshTickMsg")
        /\ config.RefreshInterval = ConfigRefreshInterval
        /\ service.lastRefresh.set
        /\ now - service.lastRefresh.at >= TickPeriod)
          => \E i \in DOMAIN last'.cmds : last'.cmds[i] = ConnectCmd]_vars


(***************************************************************************)
(* The refresh timer among keys, resizes and results                       *)
(***************************************************************************)
\* A user who opens a job and goes back and resizes the terminal while the
\* timer ticks; the server answers every request
NextTicks ==
    \/ KeyJobs
    \/ KeyEnterJobList
    \/ KeyBack
    \/ \E size \in Sizes : Resize(size[1], size[2])
    \/ AdvanceRefresh
    \/ \E c \in BagToSet(cmds) : RunRefreshTick(c)
    \/ RunConnect
    \/ RunFetchJobs
    \/ \E c \in BagToSet(cmds) : RunFetchJobDetail(c)
    \/ \E c \in BagToSet(cmds) : RunFetchBuildDetail(c)
    \/ ProcessConnect
    \/ ProcessFetchJobs
    \/ ProcessFetchJobDetail
    \/ ProcessFetchBuildDetail
    \/ ProcessRefreshTick

SpecTicks == Init /\ [][NextTicks]_vars

\* the refresh ticks scheduled and the tick messages queued
TicksOutstanding ==
    LET RECURSIVE Sum(_)
        Sum(S) == IF S = {} THEN 0
                  ELSE LET c == CHOOSE x \in S : TRUE IN
                       (IF c.type = "RefreshTick" THEN CopiesIn(c, cmds) ELSE 0) + Sum(S \ {c})
    IN Sum(BagToSet(cmds))
       + Cardinality({i \in DOMAIN msgs : msgs[i].type = "RefreshTickMsg"})

\* C38: until the user quits exactly one refresh tick is outstanding,
\* scheduled or queued
C38_OneTick == ~quit => TicksOutstanding = 1

\* the second tick has been handled and its successor is scheduled, while
\* the user is looking at a job in a resized terminal
C38_OneTick_Witness ==
    /\ now >= 2 * TickPeriod
    /\ BagIn(RefreshTickCmd(now + TickPeriod), cmds)
    /\ currentView = JobDetailView
    /\ width > 0
    /\ jobDetail.lastBuild # <<>>


\* C39: while the job list is in filter-entry state, the keys q, d, j and ?
\* are typed into the filter: the text grows by the key, the view stays,
\* the application does not quit and no fetch is issued
C39_FilterConsumesKeys ==
    [][(/\ currentView = JobListView
        /\ jobList.list.filterState = Filtering
        /\ last' # last
        /\ \E k \in {"q", "d", "j", "?"} : last'.msg = KeyMsg(k))
          => /\ jobList'.list.filterValue = Append(jobList.list.filterValue, last'.msg.key)
             /\ currentView' = currentView
             /\ ~quit' /\ ~BagIn(QuitCmd, cmds')
             /\ \A i \in DOMAIN last'.cmds : last'.cmds[i].type = "filterItems"]_vars


(***************************************************************************)
(* Results, ticks and resizes arriving in any view                         *)
(***************************************************************************)
\* A user walks between the views and resizes the terminal once the screen
\* has settled, while the timer ticks and the periodic refresh brings
\* results into whichever view is open; the server answers every request
NextFrame ==
    \/ KeyJobs
    \/ KeyEnterJobList
    \/ KeyEnterJobDetail
    \/ KeyBack
    \/ \E size \in Sizes : Resize(size[1], size[2])
    \/ AdvanceOnce
    \/ \E c \in BagToSet(cmds) : RunRefreshTick(c)
    \/ RunConnect
    \/ RunFetchJobs
    \/ \E c \in BagToSet(cmds) : RunFetchJobDetail(c)
    \/ \E c \in BagToSet(cmds) : RunFetchBuildDetail(c)
    \/ \E c \in BagToSet(cmds) : RunFetchBuildLog(c)
    \/ ProcessConnect
    \/ ProcessFetchJobs
    \/ ProcessFetchJobDetail
    \/ ProcessFetchBuildDetail
    \/ ProcessFetchBuildLog
    \/ ProcessRefreshTick

SpecFrame == Init /\ [][NextFrame]_vars


====
